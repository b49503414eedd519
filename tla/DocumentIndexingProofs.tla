----------------------- MODULE DocumentIndexingProofs -----------------------
(***************************************************************************)
(* What holds of the life of documents for every upload, every number of   *)
(* chunks and requests, and every choice of failures and dying workers.    *)
(*                                                                         *)
(* Some of it holds whatever runs beside what.  The rest is about the      *)
(* documents whose users wait until they are at rest: the proofs show that *)
(* one actor at a time then works on such a document, a run or the request *)
(* that leads to it, and say for each step of this actor what the rows and *)
(* the index hold.                                                         *)
(***************************************************************************)
EXTENDS DocumentIndexing, TLAPS

-----------------------------------------------------------------------------
(* The control state of requests and runs *)

OnDocument ==
  {"extract", "setSplitting", "add", "setIndexing", "mark", "load", "keywords",
   "checkCompleted", "setCompleted", "paused", "error"}

StatesOf(k) ==
  CASE k = "none" -> {"none"}
    [] k = "index" -> {"queued", "next", "done"} \union OnDocument
    [] k = "recover" -> {"queued", "clear", "reload", "done"} \union OnDocument
    [] k = "retry" -> {"queued", "cleanIndex", "cleanRows", "setParsing", "retryError",
                       "unkey", "done"} \union OnDocument
    [] k = "clean" -> {"queued", "wipeIndex", "wipeRows", "done"}

BeforeTask == {"new", "pause", "pauseKey", "recover", "recoverKey", "recoverTask",
               "retry", "retryKey", "retryTask"}

(***************************************************************************)
(* A request starts at most one task, about the document it is about; the  *)
(* upload's task has not yet taken the documents it has still to take.     *)
(***************************************************************************)
RequestShape(q) ==
  /\ kind[q] # "index"
  /\ step[q] \in BeforeTask => kind[q] = "none"
  /\ step[q] = "delete" => kind[q] = "clean"
  /\ step[q] # "new" => target[q] \in Docs
  /\ todo[q] = IF pc[q] = "queued" THEN {target[q]} ELSE {}
  /\ doc[q] = IF pc[q] \in {"none", "queued"} THEN NoDoc ELSE target[q]
  /\ kind[q] = "clean" => step[q] = "delete" \/ status[target[q]] = "gone"

UploadShape ==
  /\ kind[Upload] = "index"
  /\ pc[Upload] \notin {"queued", "next", "done"} => doc[Upload] \in Docs
  /\ pc[Upload] = "queued" => doc[Upload] = NoDoc
  /\ doc[Upload] \notin todo[Upload]

Shape ==
  /\ \A r \in Runs : pc[r] \in StatesOf(kind[r])
  /\ \A q \in Requests : RequestShape(q)
  /\ UploadShape

-----------------------------------------------------------------------------
(* One actor at a time *)

Strong == {"recover", "recoverKey", "recoverTask", "retry", "retryKey", "retryTask", "delete"}

Acts(r, d) ==
  \/ AtWork(r, d)
  \/ r \in Requests /\ target[r] = d /\ step[r] \in Strong

(***************************************************************************)
(* As long as nobody recovers, retries or deletes a document while it is   *)
(* worked on, one actor at a time has it, and only the cleaning task has a *)
(* document that is gone.                                                  *)
(***************************************************************************)
Alone(d) ==
  ~overlapped[d] =>
    /\ \A r, s \in Runs : Acts(r, d) /\ Acts(s, d) => r = s
    /\ status[d] = "gone" => \A r \in Runs : Acts(r, d) => kind[r] = "clean"

-----------------------------------------------------------------------------
(* Pauses *)

RetryAhead(r, d) ==
  /\ r \in Requests /\ target[r] = d
  /\ \/ step[r] \in {"retryKey", "retryTask"}
     \/ kind[r] = "retry" /\ pc[r] \in {"queued", "cleanIndex", "cleanRows", "setParsing"}

(***************************************************************************)
(* The next status is written without another look at is_paused.           *)
(***************************************************************************)
Committed(r, d) ==
  \/ doc[r] = d /\ pc[r] \in {"setSplitting", "setIndexing", "setCompleted"}
  \/ kind[r] = "index" /\ pc[r] = "queued" /\ d \in todo[r]
  \/ RetryAhead(r, d)

PauseInv(d) ==
  ~overlapped[d] =>
    /\ advanced[d] <= 1
    /\ isPaused[d] /\ (\E r \in Runs : Committed(r, d)) => advanced[d] = 0

-----------------------------------------------------------------------------
(* Segments and index, whatever runs beside what *)

(***************************************************************************)
(* A run has still to add the segment of a chunk to the document.          *)
(***************************************************************************)
WillAdd(r, c, d) ==
  \/ pc[r] = "none"
  \/ pc[r] # "done" /\ d \in todo[r]
  \/ /\ doc[r] = d
     /\ pc[r] \in {"clear", "cleanIndex", "cleanRows", "setParsing", "extract", "setSplitting"}
  \/ doc[r] = d /\ pc[r] = "add" /\ <<r, c>> \notin nodes[r]

Fresh ==
  \A r \in Runs, c \in Chunks, d \in Docs :
    WillAdd(r, c, d) =>
      /\ segment[d][<<r, c>>] = "none"
      /\ \A s \in Runs : doc[s] = d => <<r, c>> \notin nodes[s]

EmptyHanded ==
  {"none", "queued", "next", "clear", "setParsing", "extract", "setSplitting",
   "checkCompleted", "setCompleted"}

HeldBy(r) ==
  /\ pc[r] \in EmptyHanded => nodes[r] = {}
  /\ pc[r] = "add" => nodes[r] \subseteq {r} \X Chunks
  /\ \A n \in Nodes : thread[r][n] # "out" => n \in nodes[r] /\ pc[r] \in {"load", "keywords"}
  /\ pc[r] = "keywords" => technique = "economy"

Held == \A r \in Runs : HeldBy(r)

Vouched(d, n) ==
  \/ n \in index[d]
  \/ \E r \in Runs : doc[r] = d /\ n \in nodes[r] /\ pc[r] \in {"cleanRows", "wipeRows"}

Stored(r, n) ==
  \/ pc[r] = "load" /\ thread[r][n] = "stored"
  \/ pc[r] = "keywords" /\ n \in nodes[r]

IndexedInv ==
  crashed = {} =>
    \A d \in Docs, n \in Nodes :
      /\ segment[d][n] = "completed" => Vouched(d, n)
      /\ \A r \in Runs : doc[r] = d /\ Stored(r, n) =>
           segment[d][n] = "none" \/ Vouched(d, n)

-----------------------------------------------------------------------------
(* Segments and index of a document that one actor at a time works on *)

Empty(d) == SegmentsOf(d) = {} /\ index[d] = {}
Full(d) == \A c \in Chunks : \E r \in Runs : <<r, c>> \in SegmentsOf(d)
AllCompleted(d) == \A n \in Nodes : segment[d][n] \in {"none", "completed"}

RetryCleans(r, d) ==
  /\ r \in Requests /\ target[r] = d
  /\ \/ step[r] \in {"retryKey", "retryTask"}
     \/ kind[r] = "retry" /\ pc[r] \in {"queued", "cleanIndex", "cleanRows", "retryError"}

(***************************************************************************)
(* What holds between the steps of any run.                                *)
(***************************************************************************)
AtRest(d) ==
  /\ status[d] \in {"waiting", "parsing"} => Empty(d) \/ \E r \in Runs : RetryCleans(r, d)
  /\ status[d] = "splitting" => index[d] = {}
  /\ index[d] \subseteq SegmentsOf(d)
  /\ \A m, n \in SegmentsOf(d) : m[2] = n[2] => m = n
  /\ status[d] = "indexing" /\ ~Cleaned(d) => Full(d)

(***************************************************************************)
(* What holds at each step of the run that has the document.               *)
(***************************************************************************)
Stage(r, d) ==
  /\ pc[r] \in {"clear", "reload", "cleanIndex", "cleanRows", "setParsing"} \union OnDocument
       => status[d] # "gone"
  /\ pc[r] = "clear" => index[d] = {}
  /\ pc[r] \in {"extract", "setSplitting", "setParsing"} => Empty(d)
  /\ pc[r] \in {"extract", "setSplitting"} => status[d] \in {"waiting", "parsing", "splitting"}
  /\ pc[r] \in {"clear", "add", "setIndexing"} => status[d] = "splitting"
  /\ pc[r] \in {"reload", "mark", "load", "keywords", "checkCompleted", "setCompleted"}
       => status[d] = "indexing"
  /\ pc[r] \in {"add", "setIndexing", "mark"} => SegmentsOf(d) = nodes[r] /\ index[d] = {}
  /\ pc[r] = "add" => nodes[r] \subseteq {r} \X Chunks
  /\ pc[r] \in {"setIndexing", "mark"} => nodes[r] = {r} \X Chunks
  /\ pc[r] = "load" => nodes[r] \subseteq SegmentsOf(d)
  /\ pc[r] \in {"cleanIndex", "cleanRows", "wipeIndex"} => nodes[r] = SegmentsOf(d)
  /\ pc[r] \in {"cleanRows", "wipeRows"} => index[d] = {}

Untouched(d) ==
  pc[Upload] # "done" /\ d \in todo[Upload] => Empty(d) /\ status[d] \in {"waiting", "parsing"}

ToBeCleaned(d) == (\E r \in Runs : RetryAhead(r, d)) => status[d] = "waiting"

OrderlyInv(d) ==
  ~overlapped[d] /\ "retry" \notin crashed =>
    /\ AtRest(d)
    /\ Untouched(d)
    /\ ToBeCleaned(d)
    /\ \A r \in Runs : doc[r] = d => Stage(r, d)

-----------------------------------------------------------------------------
(* ... and no worker dies *)

Marking(d) == \E r \in Runs : doc[r] = d /\ pc[r] = "mark"

LoadedRows(d) ==
  /\ status[d] \in {"indexing", "completed"} /\ ~Marking(d) => \A n \in Nodes : segment[d][n] # "waiting"
  /\ technique = "high_quality" /\ status[d] = "completed" => Full(d) /\ AllCompleted(d)

LoadedRun(r, d) ==
  /\ pc[r] = "load" =>
       \A n \in SegmentsOf(d) :
         n \notin nodes[r] \/ thread[r][n] = "done" => segment[d][n] = "completed"
  /\ technique = "high_quality" /\ pc[r] \in {"checkCompleted", "setCompleted"} => AllCompleted(d)

LoadedInv(d) ==
  ~overlapped[d] /\ crashed = {} /\ ~Cleaned(d) =>
    LoadedRows(d) /\ \A r \in Runs : doc[r] = d => LoadedRun(r, d)

WipedInv(d) ==
  ~overlapped[d] /\ crashed = {} =>
    \A r \in Runs : kind[r] = "clean" /\ pc[r] = "done" /\ doc[r] = d => Empty(d)

-----------------------------------------------------------------------------
(* Types *)

(***************************************************************************)
(* Type correctness is inductive only with the document of a request.      *)
(***************************************************************************)
Typed ==
  /\ TypeOK
  /\ \A q \in Requests : step[q] # "new" => target[q] \in Docs

LEMMA RunsAndDocs ==
  /\ Requests \subseteq Runs /\ Upload \in Runs /\ Upload \notin Requests
  /\ \A r \in Runs : r = Upload \/ r \in Requests
  /\ NoDoc \notin Docs
BY IndexingAssumption DEF Runs

LEMMA InitTyped == Init => Typed
<1> SUFFICES ASSUME Init PROVE Typed
  OBVIOUS
<1>1. segment \in [Docs -> [Nodes -> SegmentStates]] /\ index \in [Docs -> SUBSET Nodes]
  BY DEF Init, SegmentStates
<1>2. thread \in [Runs -> [Nodes -> ThreadStates]]
  BY DEF Init, ThreadStates
<1>3. todo \in [Runs -> SUBSET Docs] /\ nodes \in [Runs -> SUBSET Nodes]
  BY DEF Init
<1>4. advanced \in [Docs -> 0..2]
  BY DEF Init
<1> QED
  BY <1>1, <1>2, <1>3, <1>4, RunsAndDocs
     DEF Init, Typed, TypeOK, Statuses, Unfinished, RequestStates, Kinds, RunStates

LEMMA RequestTyped ==
  ASSUME Typed, NEW q \in Requests, NEW d \in Docs,
         AskAbout(q, d) \/ Request(q) \/ ExpireRetryKey(d)
  PROVE  Typed'
<1>0. 0 \in 0..2
  OBVIOUS
<1> USE <1>0, RunsAndDocs DEF Typed, TypeOK, Statuses, Unfinished, RequestStates, Kinds,
        RunStates, rows, keys, data, requests, runs, history, Ask, GoOn, Commit, Start,
        NoteOverlap
<1>1. CASE AskPause(q, d)
  BY <1>1 DEF AskPause
<1>2. CASE AskRecover(q, d)
  BY <1>2 DEF AskRecover
<1>3. CASE AskRetry(q, d)
  BY <1>3 DEF AskRetry
<1>4. CASE AskDelete(q, d)
  BY <1>4 DEF AskDelete
<1>5. CASE CommitPause(q)
  <2>1. isPaused' \in [Docs -> BOOLEAN]
    BY <1>5 DEF CommitPause
  <2>2. advanced' \in [Docs -> 0..2]
    BY <1>5 DEF CommitPause
  <2> QED
    BY <1>5, <2>1, <2>2 DEF CommitPause
<1>6. CASE SetPausedKey(q)
  BY <1>6 DEF SetPausedKey
<1>7. CASE CommitRecover(q)
  BY <1>7 DEF CommitRecover
<1>8. CASE DeletePausedKey(q)
  BY <1>8 DEF DeletePausedKey, KeyAfterRecover
<1>9. CASE SendRecover(q)
  BY <1>9 DEF SendRecover
<1>10. CASE CommitRetry(q)
  <2>1. status' \in [Docs -> Statuses]
    BY <1>10 DEF CommitRetry
  <2>2. advanced' \in [Docs -> 0..2]
    BY <1>10 DEF CommitRetry
  <2> QED
    BY <1>10, <2>1, <2>2 DEF CommitRetry
<1>11. CASE SetRetryKey(q)
  BY <1>11 DEF SetRetryKey
<1>12. CASE SendRetry(q)
  BY <1>12 DEF SendRetry
<1>13. CASE RemoveRow(q)
  BY <1>13 DEF RemoveRow
<1>14. CASE ExpireRetryKey(d)
  BY <1>14 DEF ExpireRetryKey
<1> QED
  BY <1>1, <1>2, <1>3, <1>4, <1>5, <1>6, <1>7, <1>8, <1>9, <1>10, <1>11, <1>12, <1>13, <1>14
     DEF AskAbout, Request

(***************************************************************************)
(* What a run writes about documents.                                      *)
(***************************************************************************)
LEMMA WriteTyped ==
  ASSUME Typed, NEW ds, NEW new \in Statuses, Write(ds, new)
  PROVE  /\ technique' \in Techniques /\ status' \in [Docs -> Statuses]
         /\ isPaused' \in [Docs -> BOOLEAN]
BY DEF Typed, TypeOK, Write

LEMMA AdvanceTyped ==
  ASSUME Typed, NEW ds, NEW new \in Statuses, Advance(ds, new)
  PROVE  /\ technique' \in Techniques /\ status' \in [Docs -> Statuses]
         /\ isPaused' \in [Docs -> BOOLEAN] /\ overlapped' \in [Docs -> BOOLEAN]
         /\ advanced' \in [Docs -> 0..2] /\ dropped' \in SUBSET Docs
         /\ crashed' \in SUBSET Kinds
<1>1. Write(ds, new)
  BY DEF Advance
<1>2. \A n \in 0..2 : n < 2 => n + 1 \in 0..2
  OBVIOUS
<1>3. advanced' \in [Docs -> 0..2]
  BY <1>2 DEF Advance, Typed, TypeOK
<1> QED
  BY <1>1, <1>3, WriteTyped DEF Advance, Typed, TypeOK

LEMMA WithoutTyped ==
  ASSUME Typed, NEW d, NEW ns, WithoutSegments(d, ns)
  PROVE  segment' \in [Docs -> [Nodes -> SegmentStates]]
BY DEF Typed, TypeOK, WithoutSegments, SegmentStates

LEMMA LoadTyped ==
  ASSUME Typed, NEW r \in Runs, NEW ns \in SUBSET Nodes, Load(r, ns)
  PROVE  nodes' \in [Runs -> SUBSET Nodes] /\ thread' \in [Runs -> [Nodes -> ThreadStates]]
BY DEF Typed, TypeOK, Load, ThreadStates

LEMMA LoadedTyped ==
  ASSUME Typed, NEW r \in Runs, NEW from, NEW next \in RunStates, Loaded(r, from, next),
         segment' \in [Docs -> [Nodes -> SegmentStates]], index' \in [Docs -> SUBSET Nodes]
  PROVE  Typed'
<1>1. thread' \in [Runs -> [Nodes -> ThreadStates]]
  BY DEF Typed, TypeOK, Loaded, ThreadStates
<1> QED
  BY <1>1 DEF Typed, TypeOK, Loaded, Move, rows, keys, requests, history

LEMMA AfterDocumentTyped ==
  ASSUME NEW r PROVE AfterDocument(r) \in {"next", "done", "unkey"}
BY DEF AfterDocument

LEMMA RunTyped ==
  ASSUME Typed, NEW r \in Runs, Run(r) \/ Crash(r)
  PROVE  Typed'
<1> USE DEF Typed, TypeOK, RunStates, rows, keys, data, requests, runs, history, Move
<1>1. {"parsing", "splitting", "indexing", "completed", "error"} \subseteq Statuses
  BY DEF Statuses, Unfinished
<1>2. CASE StartIndex(r)
  BY <1>1, <1>2, WriteTyped, AdvanceTyped DEF StartIndex
<1>3. CASE TakeDocument(r)
  <2>1. todo[r] \subseteq Docs
    OBVIOUS
  <2>2. doc' \in [Runs -> Docs \union {NoDoc}] /\ todo' \in [Runs -> SUBSET Docs]
    <3>1. CASE UNCHANGED <<doc, todo>>
      BY <3>1
    <3>2. ASSUME NEW d \in todo[r], doc' = [doc EXCEPT ![r] = d],
                 todo' = [todo EXCEPT ![r] = @ \ {d}]
          PROVE  doc' \in [Runs -> Docs \union {NoDoc}] /\ todo' \in [Runs -> SUBSET Docs]
      BY <2>1, <3>2
    <3> QED
      BY <1>3, <3>1, <3>2 DEF TakeDocument
  <2>3. pc' \in [Runs -> RunStates]
    BY <1>3 DEF TakeDocument
  <2> QED
    BY <1>3, <2>2, <2>3 DEF TakeDocument
<1>4. CASE StartRecover(r)
  BY <1>4 DEF StartRecover, Resume
<1>5. CASE ClearSegments(r)
  BY <1>5, WithoutTyped DEF ClearSegments
<1>6. CASE Reload(r)
  BY <1>6, LoadTyped DEF Reload, Unindexed, SegmentsOf
<1>7. CASE StartRetry(r)
  <2>1. doc' \in [Runs -> Docs \union {NoDoc}] /\ todo' \in [Runs -> SUBSET Docs]
    BY <1>7 DEF StartRetry
  <2>2. pc' \in [Runs -> RunStates] /\ nodes' \in [Runs -> SUBSET Nodes]
    <3>1. PICK d \in todo[r] :
            \/ /\ pc' = [pc EXCEPT ![r] = "unkey"] /\ UNCHANGED nodes
            \/ /\ pc' = [pc EXCEPT ![r] = IF Exists(d) THEN "cleanIndex" ELSE "done"]
               /\ nodes' = [nodes EXCEPT ![r] = SegmentsOf(d)]
      BY <1>7 DEF StartRetry
    <3>2. pc' \in [Runs -> RunStates]
      BY <3>1
    <3>3. SegmentsOf(d) \in SUBSET Nodes
      BY DEF SegmentsOf
    <3>4. nodes' \in [Runs -> SUBSET Nodes]
      BY <3>1, <3>3
    <3> QED
      BY <3>2, <3>4
  <2>3. technique' \in Techniques /\ status' \in [Docs -> Statuses]
        /\ isPaused' \in [Docs -> BOOLEAN]
    BY <1>1, <1>7, WriteTyped DEF StartRetry
  <2> QED
    BY <1>7, <2>1, <2>2, <2>3 DEF StartRetry
<1>8. CASE CleanIndex(r)
  BY <1>8 DEF CleanIndex
<1>9. CASE CleanIndexFails(r)
  BY <1>9 DEF CleanIndexFails
<1>10. CASE CleanRows(r)
  BY <1>10, WithoutTyped DEF CleanRows
<1>11. CASE SetParsing(r)
  BY <1>1, <1>11, AdvanceTyped DEF SetParsing
<1>12. ASSUME NEW from, NEW next \in RunStates, Check(r, from, next) PROVE Typed'
  BY <1>12 DEF Check
<1>13. ASSUME NEW from, NEW next \in RunStates, NEW new \in Statuses,
              Update(r, from, next, new)
       PROVE  Typed'
  BY <1>13, AdvanceTyped DEF Update
<1>14. CASE UpdateStatus(r)
  <2>1. CASE \/ Check(r, "extract", "setSplitting") \/ Check(r, "add", "setIndexing")
             \/ Check(r, "checkCompleted", "setCompleted")
    BY <1>12, <2>1
  <2>2. CASE Update(r, "setSplitting", "add", "splitting")
    BY <1>1, <1>13, <2>2
  <2>3. CASE Update(r, "setIndexing", "mark", "indexing")
    BY <1>1, <1>13, <2>3
  <2>4. CASE Update(r, "setCompleted", AfterDocument(r), "completed")
    <3>1. AfterDocument(r) \in RunStates
      BY AfterDocumentTyped
    <3> HIDE DEF RunStates
    <3> QED
      BY <1>1, <1>13, <2>4, <3>1
  <2> QED
    BY <1>14, <2>1, <2>2, <2>3, <2>4 DEF UpdateStatus, StatusOnceExtracted
<1>15. CASE AddSegment(r)
  <2>1. PICK c \in Chunks :
          /\ segment' = [segment EXCEPT ![doc[r]][<<r, c>>] = "waiting"]
          /\ nodes' = [nodes EXCEPT ![r] = @ \union {<<r, c>>}]
    BY <1>15 DEF AddSegment, Missing
  <2>2. <<r, c>> \in Nodes /\ "waiting" \in SegmentStates
    BY DEF Nodes, SegmentStates
  <2>3. segment' \in [Docs -> [Nodes -> SegmentStates]] /\ nodes' \in [Runs -> SUBSET Nodes]
    BY <2>1, <2>2
  <2> QED
    BY <1>15, <2>3 DEF AddSegment
<1>16. CASE MarkSegments(r)
  <2>1. {r} \X Chunks \in SUBSET Nodes
    BY DEF Nodes
  <2>2. segment' \in [Docs -> [Nodes -> SegmentStates]]
    BY <1>16 DEF MarkSegments, SegmentStates
  <2> QED
    BY <1>16, <2>1, <2>2, LoadTyped DEF MarkSegments
<1>17. ASSUME NEW n \in Nodes, NEW from, NEW next \in ThreadStates, Step(r, n, from, next),
              segment' \in [Docs -> [Nodes -> SegmentStates]], index' \in [Docs -> SUBSET Nodes]
       PROVE  Typed'
  <2>1. thread' \in [Runs -> [Nodes -> ThreadStates]]
    BY <1>17 DEF Step
  <2> QED
    BY <1>17, <2>1 DEF Step
<1>18. CASE Chunk(r)
  <2> PICK n \in Nodes :
        ChunkChecks(r, n) \/ ChunkIsStored(r, n) \/ ChunkFails(r, n) \/ ChunkCompletes(r, n)
    BY <1>18 DEF Chunk
  <2>1. CASE ChunkChecks(r, n)
    BY <1>17, <2>1 DEF ChunkChecks, ThreadStates
  <2>2. CASE ChunkIsStored(r, n)
    BY <1>17, <2>2 DEF ChunkIsStored, ThreadStates
  <2>3. CASE ChunkFails(r, n)
    BY <1>17, <2>3 DEF ChunkFails, ThreadStates
  <2>4. CASE ChunkCompletes(r, n)
    <3>1. segment' \in [Docs -> [Nodes -> SegmentStates]]
      BY <2>4 DEF ChunkCompletes, SegmentStates
    <3> QED
      BY <1>17, <2>4, <3>1 DEF ChunkCompletes, ThreadStates
  <2> QED
    BY <2>1, <2>2, <2>3, <2>4
<1>19. CASE Join(r)
  BY <1>19, LoadedTyped DEF Join
<1>20. CASE KeywordsAreStored(r)
  BY <1>20 DEF KeywordsAreStored
<1>21. CASE KeywordsComplete(r)
  <2>1. segment' \in [Docs -> [Nodes -> SegmentStates]]
    BY <1>21 DEF KeywordsComplete, SegmentStates
  <2> QED
    BY <1>21, <2>1, LoadedTyped DEF KeywordsComplete
<1>22. CASE KeywordThreadRaises(r)
  BY <1>22, LoadedTyped DEF KeywordThreadRaises
<1>23. CASE RunFails(r)
  BY <1>23 DEF RunFails
<1>24. CASE HandleError(r)
  BY <1>1, <1>24, WriteTyped, AfterDocumentTyped DEF HandleError
<1>25. CASE IsPaused(r)
  BY <1>25 DEF IsPaused
<1>26. CASE RetryError(r)
  BY <1>1, <1>26, WriteTyped DEF RetryError
<1>27. CASE DeleteRetryKey(r)
  BY <1>27 DEF DeleteRetryKey
<1>28. CASE StartClean(r)
  BY <1>28 DEF StartClean, SegmentsOf
<1>29. CASE WipeIndex(r)
  BY <1>29 DEF WipeIndex
<1>30. CASE WipeRows(r)
  BY <1>30, WithoutTyped DEF WipeRows
<1>31. CASE Crash(r)
  <2>1. thread' \in [Runs -> [Nodes -> ThreadStates]]
    BY <1>31 DEF Crash, ThreadStates
  <2> QED
    BY <1>31, <2>1 DEF Crash
<1> QED
  BY <1>2, <1>3, <1>4, <1>5, <1>6, <1>7, <1>8, <1>9, <1>10, <1>11, <1>14, <1>15, <1>16, <1>18,
     <1>19, <1>20, <1>21, <1>22, <1>23, <1>24, <1>25, <1>26, <1>27, <1>28, <1>29, <1>30, <1>31
     DEF Run

LEMMA NextTyped == Typed /\ [Next]_vars => Typed'
<1> SUFFICES ASSUME Typed, [Next]_vars PROVE Typed'
  OBVIOUS
<1>1. CASE UNCHANGED vars
  BY <1>1 DEF Typed, TypeOK, vars, rows, keys, data, requests, runs, history
<1>2. ASSUME NEW d \in Docs, ExpireRetryKey(d) PROVE Typed'
  BY <1>2 DEF ExpireRetryKey, Typed, TypeOK, rows, data, requests, runs, history
<1>3. ASSUME NEW q \in Requests, Request(q) PROVE Typed'
  <2>1. step[q] # "new"
    BY <1>3 DEF Request, CommitPause, SetPausedKey, CommitRecover, DeletePausedKey, SendRecover,
       CommitRetry, SetRetryKey, SendRetry, RemoveRow, Commit, GoOn
  <2>2. target[q] \in Docs
    BY <2>1 DEF Typed
  <2> QED
    BY <1>3, <2>2, RequestTyped
<1> QED
  BY <1>1, <1>2, <1>3, RequestTyped, RunTyped DEF Next

(***************************************************************************)
(* Every variable keeps its type.                                          *)
(***************************************************************************)
THEOREM TypeCorrect == Safety => []TypeOK
<1>1. Typed => TypeOK
  BY DEF Typed
<1> QED
  BY <1>1, InitTyped, NextTyped, PTL DEF Safety

-----------------------------------------------------------------------------
(* What a step leaves alone *)

(***************************************************************************)
(* A step of a run leaves the other runs and the requests alone, and the   *)
(* documents it neither has nor has still to take; it brings no document   *)
(* back and adds none to its batch.                                        *)
(***************************************************************************)
RunFrame(r) ==
  /\ pc[r] \notin {"none", "done"}
  /\ UNCHANGED <<technique, isPaused, kind, step, target, overlapped>>
  /\ \A s \in Runs \ {r} :
       /\ pc'[s] = pc[s] /\ doc'[s] = doc[s] /\ todo'[s] = todo[s]
       /\ nodes'[s] = nodes[s] /\ thread'[s] = thread[s]
  /\ crashed \subseteq crashed'
  /\ todo'[r] \subseteq todo[r]
  /\ doc'[r] = doc[r] \/ doc'[r] \in todo[r]
  /\ \A d \in Docs :
       /\ d # doc[r] => segment'[d] = segment[d] /\ index'[d] = index[d]
       /\ d # doc[r] /\ d \notin todo[r] => status'[d] = status[d] /\ advanced'[d] = advanced[d]
       /\ d # doc[r] /\ pc[r] # "queued" => status'[d] = status[d]
       /\ ~isPaused[d] => advanced'[d] = advanced[d]
       /\ status[d] = "gone" <=> status'[d] = "gone"

LEMMA RunFrames ==
  ASSUME Typed, NEW r \in Runs, Run(r) \/ Crash(r)
  PROVE  RunFrame(r)
<1> USE DEF Typed, TypeOK, RunFrame, Move, Exists, rows, keys, data, requests, runs, history
<1>1. CASE StartIndex(r)
  BY <1>1 DEF StartIndex, Write, Advance
<1>2. CASE TakeDocument(r)
  BY <1>2 DEF TakeDocument
<1>3. CASE StartRecover(r)
  BY <1>3 DEF StartRecover
<1>4. CASE ClearSegments(r)
  BY <1>4 DEF ClearSegments, WithoutSegments
<1>5. CASE Reload(r)
  BY <1>5 DEF Reload, Load
<1>6. CASE StartRetry(r)
  BY <1>6 DEF StartRetry, Write
<1>7. CASE CleanIndex(r)
  BY <1>7 DEF CleanIndex
<1>8. CASE CleanIndexFails(r)
  BY <1>8 DEF CleanIndexFails
<1>9. CASE CleanRows(r)
  BY <1>9 DEF CleanRows, WithoutSegments
<1>10. CASE SetParsing(r)
  BY <1>10 DEF SetParsing, Advance, Write
<1>11. CASE UpdateStatus(r)
  BY <1>11 DEF UpdateStatus, Check, Update, Advance, Write, StatusOnceExtracted
<1>12. CASE AddSegment(r)
  BY <1>12 DEF AddSegment
<1>13. CASE MarkSegments(r)
  BY <1>13 DEF MarkSegments, Load
<1>14. CASE Chunk(r)
  BY <1>14 DEF Chunk, ChunkChecks, ChunkIsStored, ChunkFails, ChunkCompletes, Step
<1>15. CASE Join(r)
  BY <1>15 DEF Join, Loaded
<1>16. CASE KeywordsAreStored(r)
  BY <1>16 DEF KeywordsAreStored
<1>17. CASE KeywordsComplete(r)
  BY <1>17 DEF KeywordsComplete, Loaded
<1>18. CASE KeywordThreadRaises(r)
  BY <1>18 DEF KeywordThreadRaises, Loaded
<1>19. CASE RunFails(r)
  BY <1>19 DEF RunFails
<1>20. CASE HandleError(r)
  BY <1>20 DEF HandleError, Write
<1>21. CASE IsPaused(r)
  BY <1>21 DEF IsPaused
<1>22. CASE RetryError(r)
  BY <1>22 DEF RetryError, Write
<1>23. CASE DeleteRetryKey(r)
  BY <1>23 DEF DeleteRetryKey
<1>24. CASE StartClean(r)
  BY <1>24 DEF StartClean
<1>25. CASE WipeIndex(r)
  BY <1>25 DEF WipeIndex
<1>26. CASE WipeRows(r)
  BY <1>26 DEF WipeRows, WithoutSegments
<1>27. CASE Crash(r)
  BY <1>27 DEF Crash
<1> QED
  BY <1>1, <1>2, <1>3, <1>4, <1>5, <1>6, <1>7, <1>8, <1>9, <1>10, <1>11, <1>12, <1>13, <1>14, <1>15, <1>16, <1>17, <1>18, <1>19, <1>20, <1>21, <1>22, <1>23, <1>24, <1>25, <1>26, <1>27
     DEF Run

(***************************************************************************)
(* Where a step takes a run: along the states of its task, and to no       *)
(* document but those it was given.                                        *)
(***************************************************************************)
Moved(r) ==
  /\ pc'[r] \in StatesOf(kind[r]) \ {"none", "queued"}
  /\ r \in Requests => todo'[r] = {} /\ doc'[r] = target[r]
  /\ r = Upload => doc'[r] \notin todo'[r] /\ (pc'[r] \notin {"next", "done"} => doc'[r] \in Docs)

LEMMA RunMoves ==
  ASSUME Typed, Shape, NEW r \in Runs, Run(r) \/ Crash(r)
  PROVE  Moved(r)
<1>1. /\ pc[r] \in StatesOf(kind[r]) /\ kind[r] \in Kinds
      /\ r = Upload => kind[r] = "index"
      /\ r \in Requests => /\ kind[r] # "index"
                           /\ todo[r] = IF pc[r] = "queued" THEN {target[r]} ELSE {}
                           /\ pc[r] \notin {"none", "queued"} => doc[r] = target[r]
      /\ r = Upload => /\ pc[r] \notin {"queued", "next", "done"} => doc[r] \in Docs
                       /\ pc[r] = "queued" => doc[r] = NoDoc
                       /\ doc[r] \notin todo[r]
      /\ todo[r] \subseteq Docs
  BY DEF Shape, RequestShape, UploadShape, Typed, TypeOK
<1>2. /\ pc \in [Runs -> RunStates] /\ doc \in [Runs -> Docs \union {NoDoc}]
      /\ todo \in [Runs -> SUBSET Docs]
  BY DEF Typed, TypeOK
<1> USE <1>1, <1>2, RunsAndDocs DEF Moved, Move, StatesOf, OnDocument, Kinds, runs
<1>3. CASE StartIndex(r)
  BY <1>3 DEF StartIndex
<1>4. CASE TakeDocument(r)
  BY <1>4 DEF TakeDocument
<1>5. CASE StartRecover(r)
  BY <1>5 DEF StartRecover, Resume
<1>6. CASE ClearSegments(r)
  BY <1>6 DEF ClearSegments
<1>7. CASE Reload(r)
  BY <1>7 DEF Reload
<1>8. CASE StartRetry(r)
  BY <1>8 DEF StartRetry
<1>9. CASE CleanIndex(r)
  BY <1>9 DEF CleanIndex
<1>10. CASE CleanIndexFails(r)
  BY <1>10 DEF CleanIndexFails
<1>11. CASE CleanRows(r)
  BY <1>11 DEF CleanRows
<1>12. CASE SetParsing(r)
  BY <1>12 DEF SetParsing
<1>13. CASE UpdateStatus(r)
  BY <1>13 DEF UpdateStatus, Check, Update, AfterDocument
<1>14. CASE AddSegment(r)
  BY <1>14 DEF AddSegment
<1>15. CASE MarkSegments(r)
  BY <1>15 DEF MarkSegments
<1>16. CASE Chunk(r)
  BY <1>16 DEF Chunk, ChunkChecks, ChunkIsStored, ChunkFails, ChunkCompletes, Step
<1>17. CASE Join(r)
  BY <1>17 DEF Join, Loaded
<1>18. CASE KeywordsAreStored(r)
  BY <1>18 DEF KeywordsAreStored
<1>19. CASE KeywordsComplete(r)
  BY <1>19 DEF KeywordsComplete, Loaded
<1>20. CASE KeywordThreadRaises(r)
  BY <1>20 DEF KeywordThreadRaises, Loaded
<1>21. CASE RunFails(r)
  BY <1>21 DEF RunFails
<1>22. CASE HandleError(r)
  BY <1>22 DEF HandleError, AfterDocument
<1>23. CASE IsPaused(r)
  BY <1>23 DEF IsPaused
<1>24. CASE RetryError(r)
  BY <1>24 DEF RetryError
<1>25. CASE DeleteRetryKey(r)
  BY <1>25 DEF DeleteRetryKey
<1>26. CASE StartClean(r)
  BY <1>26 DEF StartClean
<1>27. CASE WipeIndex(r)
  BY <1>27 DEF WipeIndex
<1>28. CASE WipeRows(r)
  BY <1>28 DEF WipeRows
<1>29. CASE Crash(r)
  BY <1>29 DEF Crash
<1> QED
  BY <1>3, <1>4, <1>5, <1>6, <1>7, <1>8, <1>9, <1>10, <1>11, <1>12, <1>13, <1>14, <1>15, <1>16, <1>17, <1>18, <1>19, <1>20, <1>21, <1>22, <1>23, <1>24, <1>25, <1>26, <1>27, <1>28, <1>29
     DEF Run

(***************************************************************************)
(* A step of a request leaves the segments and the index alone, the other  *)
(* requests and runs, and every document but its own.                      *)
(***************************************************************************)
RequestFrame(q) ==
  /\ UNCHANGED <<technique, segment, index, doc, nodes, thread, crashed>>
  /\ \A s \in Runs \ {q} : kind'[s] = kind[s] /\ pc'[s] = pc[s] /\ todo'[s] = todo[s]
  /\ \A p \in Requests \ {q} : step'[p] = step[p] /\ target'[p] = target[p]
  /\ step[q] # "new" => target'[q] = target[q]
  /\ \A d \in Docs :
       /\ d # target'[q] => /\ status'[d] = status[d] /\ isPaused'[d] = isPaused[d]
                           /\ advanced'[d] = advanced[d] /\ overlapped'[d] = overlapped[d]
       /\ overlapped[d] => overlapped'[d]
       /\ status[d] = "gone" => status'[d] = "gone"

LEMMA RequestFrames ==
  ASSUME Typed, NEW q \in Requests, NEW d \in Docs, AskAbout(q, d) \/ Request(q)
  PROVE  RequestFrame(q)
<1> USE RunsAndDocs DEF Typed, TypeOK, RequestFrame, Ask, GoOn, Commit, Start, NoteOverlap, Exists,
        rows, keys, data, requests, runs, history
<1>1. CASE AskPause(q, d)
  BY <1>1 DEF AskPause
<1>2. CASE AskRecover(q, d)
  BY <1>2 DEF AskRecover
<1>3. CASE AskRetry(q, d)
  BY <1>3 DEF AskRetry
<1>4. CASE AskDelete(q, d)
  BY <1>4 DEF AskDelete
<1>5. CASE CommitPause(q)
  BY <1>5 DEF CommitPause
<1>6. CASE SetPausedKey(q)
  BY <1>6 DEF SetPausedKey
<1>7. CASE CommitRecover(q)
  BY <1>7 DEF CommitRecover
<1>8. CASE DeletePausedKey(q)
  BY <1>8 DEF DeletePausedKey
<1>9. CASE SendRecover(q)
  BY <1>9 DEF SendRecover
<1>10. CASE CommitRetry(q)
  BY <1>10 DEF CommitRetry
<1>11. CASE SetRetryKey(q)
  BY <1>11 DEF SetRetryKey
<1>12. CASE SendRetry(q)
  BY <1>12 DEF SendRetry
<1>13. CASE RemoveRow(q)
  BY <1>13 DEF RemoveRow
<1> QED
  BY <1>1, <1>2, <1>3, <1>4, <1>5, <1>6, <1>7, <1>8, <1>9, <1>10, <1>11, <1>12, <1>13
     DEF AskAbout, Request

(***************************************************************************)
(* What a request has sent when it is done is a task about its document,   *)
(* which is not gone before the task that cleans it is sent.               *)
(***************************************************************************)
LEMMA RequestMoves ==
  ASSUME Typed, Shape, NEW q \in Requests, NEW d \in Docs, AskAbout(q, d) \/ Request(q)
  PROVE  /\ RequestShape(q)' /\ pc'[q] \in StatesOf(kind'[q])
         /\ pc'[q] # pc[q] => pc[q] = "none" /\ pc'[q] = "queued"
<1>1. RequestShape(q) /\ pc[q] \in StatesOf(kind[q]) /\ kind[q] \in Kinds
  BY RunsAndDocs DEF Shape, Typed, TypeOK
<1> USE <1>1, RunsAndDocs DEF Typed, TypeOK, RequestShape, StatesOf, OnDocument, BeforeTask, Kinds,
        Ask, GoOn, Commit, Start, Exists, rows, keys, data, requests, runs, history
<1>2. CASE AskPause(q, d)
  BY <1>2 DEF AskPause
<1>3. CASE AskRecover(q, d)
  BY <1>3 DEF AskRecover
<1>4. CASE AskRetry(q, d)
  BY <1>4 DEF AskRetry
<1>5. CASE AskDelete(q, d)
  BY <1>5 DEF AskDelete
<1>6. CASE CommitPause(q)
  BY <1>6 DEF CommitPause
<1>7. CASE SetPausedKey(q)
  BY <1>7 DEF SetPausedKey
<1>8. CASE CommitRecover(q)
  BY <1>8 DEF CommitRecover
<1>9. CASE DeletePausedKey(q)
  BY <1>9 DEF DeletePausedKey
<1>10. CASE SendRecover(q)
  BY <1>10 DEF SendRecover
<1>11. CASE CommitRetry(q)
  BY <1>11 DEF CommitRetry
<1>12. CASE SetRetryKey(q)
  BY <1>12 DEF SetRetryKey
<1>13. CASE SendRetry(q)
  BY <1>13 DEF SendRetry
<1>14. CASE RemoveRow(q)
  BY <1>14 DEF RemoveRow
<1> QED
  BY <1>2, <1>3, <1>4, <1>5, <1>6, <1>7, <1>8, <1>9, <1>10, <1>11, <1>12, <1>13, <1>14
     DEF AskAbout, Request

(***************************************************************************)
(* Every step is one of a request, of a run, or of a key that expires.     *)
(***************************************************************************)
LEMMA Steps ==
  ASSUME Typed, [Next]_vars
  PROVE  \/ UNCHANGED vars
         \/ \E d \in Docs : ExpireRetryKey(d)
         \/ \E q \in Requests, d \in Docs : AskAbout(q, d) \/ Request(q)
         \/ \E r \in Runs : Run(r) \/ Crash(r)
<1>1. ASSUME NEW q \in Requests, Request(q) PROVE \E d \in Docs : TRUE
  <2>1. step[q] # "new"
    BY <1>1 DEF Request, CommitPause, SetPausedKey, CommitRecover, DeletePausedKey, SendRecover,
       CommitRetry, SetRetryKey, SendRetry, RemoveRow, Commit, GoOn
  <2> QED
    BY <2>1 DEF Typed
<1> QED
  BY <1>1 DEF Next

LEMMA InitShape == Init => Shape
BY RunsAndDocs DEF Init, Shape, RequestShape, UploadShape, StatesOf, BeforeTask

LEMMA NextShape == Typed /\ Shape /\ [Next]_vars => Shape'
<1> SUFFICES ASSUME Typed, Shape, [Next]_vars PROVE Shape'
  OBVIOUS
<1>1. CASE UNCHANGED vars
  BY <1>1 DEF Shape, RequestShape, UploadShape, vars, rows, requests, runs
<1>2. ASSUME NEW d \in Docs, ExpireRetryKey(d) PROVE Shape'
  BY <1>2 DEF ExpireRetryKey, Shape, RequestShape, UploadShape, rows, requests, runs
<1>3. ASSUME NEW q \in Requests, NEW d \in Docs, AskAbout(q, d) \/ Request(q) PROVE Shape'
  <2>1. RequestFrame(q) /\ RequestShape(q)' /\ pc'[q] \in StatesOf(kind'[q])
    BY <1>3, RequestFrames, RequestMoves
  <2>2. ASSUME NEW p \in Requests, p # q PROVE RequestShape(p)'
    <3>1. RequestShape(p) /\ p \in Runs \ {q}
      BY <2>2, RunsAndDocs DEF Shape
    <3>2. kind[p] = "clean" => target[p] \in Docs
      BY <3>1 DEF RequestShape, BeforeTask
    <3>3. /\ kind'[p] = kind[p] /\ step'[p] = step[p] /\ target'[p] = target[p]
          /\ pc'[p] = pc[p] /\ doc'[p] = doc[p] /\ todo'[p] = todo[p]
          /\ kind[p] = "clean" /\ status[target[p]] = "gone" => status'[target[p]] = "gone"
      BY <2>1, <2>2, <3>1, <3>2 DEF RequestFrame
    <3> QED
      BY <3>1, <3>3 DEF RequestShape
  <2>3. UploadShape'
    BY <2>1, RunsAndDocs DEF Shape, UploadShape, RequestFrame
  <2>4. ASSUME NEW r \in Runs PROVE pc'[r] \in StatesOf(kind'[r])
    BY <2>1 DEF Shape, RequestFrame
  <2> QED
    BY <2>1, <2>2, <2>3, <2>4 DEF Shape
<1>4. ASSUME NEW r \in Runs, Run(r) \/ Crash(r) PROVE Shape'
  <2>1. RunFrame(r) /\ Moved(r)
    BY <1>4, RunFrames, RunMoves
  <2>2. ASSUME NEW p \in Requests PROVE RequestShape(p)'
    <3>1. RequestShape(p) /\ p \in Runs
      BY <2>2, RunsAndDocs DEF Shape
    <3>2. kind[p] = "clean" => target[p] \in Docs
      BY <3>1 DEF RequestShape, BeforeTask
    <3>3. CASE p # r
      BY <2>1, <3>1, <3>2, <3>3 DEF RequestShape, RunFrame
    <3>4. CASE p = r
      BY <2>1, <3>1, <3>2, <3>4 DEF RequestShape, RunFrame, Moved
    <3> QED
      BY <3>3, <3>4
  <2>3. UploadShape'
    BY <2>1, RunsAndDocs DEF Shape, UploadShape, RunFrame, Moved
  <2>4. ASSUME NEW s \in Runs PROVE pc'[s] \in StatesOf(kind'[s])
    BY <2>1 DEF Shape, RunFrame, Moved
  <2> QED
    BY <2>2, <2>3, <2>4 DEF Shape
<1> QED
  BY <1>1, <1>2, <1>3, <1>4, Steps

-----------------------------------------------------------------------------
(* One actor at a time *)

(***************************************************************************)
(* Only a request that recovers, retries or deletes a document comes to    *)
(* act on it, and finds it at rest unless the history notes it.            *)
(***************************************************************************)
LEMMA ActorsOfRequest ==
  ASSUME Typed, Shape, NEW q \in Requests, NEW e \in Docs, AskAbout(q, e) \/ Request(q),
         NEW d \in Docs, ~overlapped'[d], NEW r \in Runs, Acts(r, d)'
  PROVE  Acts(r, d) \/ (r = q /\ status[d] # "gone" /\ \A s \in Runs : ~Acts(s, d))
<1>1. RequestFrame(q) /\ RequestShape(q) /\ pc[q] \in StatesOf(kind[q])
  BY RequestFrames, RunsAndDocs DEF Shape
<1>2. CASE r # q
  BY <1>1, <1>2 DEF RequestFrame, Acts, AtWork
<1>3. CASE r = q
  <2> USE RunsAndDocs DEF Typed, TypeOK, RequestShape, StatesOf, BeforeTask, Acts, AtWork,
          Strong, Ask, GoOn, Commit, Start, requests, runs
  <2>1. ASSUME Quiet(d) PROVE \A s \in Runs : ~Acts(s, d)
    BY <2>1 DEF Quiet, Asking
  <2>2. CASE AskRecover(q, e) \/ AskRetry(q, e) \/ AskDelete(q, e)
    <3>1. NoteOverlap(e) /\ target'[q] = e
      BY <2>2 DEF AskRecover, AskRetry, AskDelete
    <3>2. CASE d = e
      BY <1>3, <2>1, <2>2, <3>1, <3>2 DEF NoteOverlap, AskRecover, AskRetry, AskDelete, Exists
    <3>3. CASE d # e
      BY <1>1, <1>3, <2>2, <3>1, <3>3 DEF AskRecover, AskRetry, AskDelete
    <3> QED
      BY <3>2, <3>3
  <2>3. CASE AskPause(q, e)
    BY <1>1, <1>3, <2>3 DEF AskPause
  <2>4. CASE CommitPause(q) \/ SetPausedKey(q)
    BY <1>1, <1>3, <2>4 DEF CommitPause, SetPausedKey
  <2>5. CASE CommitRecover(q) \/ DeletePausedKey(q) \/ SendRecover(q)
    BY <1>1, <1>3, <2>5 DEF CommitRecover, DeletePausedKey, SendRecover
  <2>6. CASE CommitRetry(q) \/ SetRetryKey(q) \/ SendRetry(q)
    BY <1>1, <1>3, <2>6 DEF CommitRetry, SetRetryKey, SendRetry
  <2>7. CASE RemoveRow(q)
    BY <1>1, <1>3, <2>7 DEF RemoveRow
  <2> QED
    BY <2>2, <2>3, <2>4, <2>5, <2>6, <2>7 DEF AskAbout, Request
<1> QED
  BY <1>2, <1>3

LEMMA ActorsOfRun ==
  ASSUME NEW r \in Runs, RunFrame(r), NEW d \in Docs, NEW s \in Runs, Acts(s, d)'
  PROVE  Acts(s, d)
BY DEF RunFrame, Acts, AtWork

(***************************************************************************)
(* A document goes by the request that deletes it, and a task is sent for  *)
(* a document that is there.                                               *)
(***************************************************************************)
LEMMA GoneByRequest ==
  ASSUME Typed, Shape, NEW q \in Requests, NEW e \in Docs, AskAbout(q, e) \/ Request(q),
         NEW d \in Docs, Alone(d), ~overlapped'[d], status'[d] = "gone",
         NEW r \in Runs, Acts(r, d)'
  PROVE  kind'[r] = "clean"
<1>1. RequestFrame(q) /\ RequestShape(q)
  BY RequestFrames DEF Shape
<1>2. ~overlapped[d]
  BY <1>1 DEF RequestFrame, Typed, TypeOK
<1>3. CASE status[d] # "gone"
  <2>1. RemoveRow(q) /\ target[q] = d
    BY <1>3 DEF AskAbout, Request, Typed, TypeOK, AskPause, AskRecover, AskRetry, AskDelete,
       CommitPause, SetPausedKey, CommitRecover, DeletePausedKey, SendRecover, CommitRetry,
       SetRetryKey, SendRetry, RemoveRow, rows
  <2>2. Acts(q, d) /\ kind[q] = "clean" /\ q \in Runs
    BY <1>1, <2>1, RunsAndDocs DEF RemoveRow, GoOn, Acts, Strong, RequestShape
  <2>3. Acts(r, d)
    BY <2>2, ActorsOfRequest
  <2>4. r = q
    BY <1>2, <2>2, <2>3 DEF Alone
  <2> QED
    BY <2>1, <2>2, <2>4 DEF RemoveRow, runs
<1>4. CASE status[d] = "gone"
  <2>1. CASE Acts(r, d)
    <3>1. kind[r] = "clean"
      BY <1>2, <1>4, <2>1 DEF Alone
    <3>2. r = q => ~SendRecover(q) /\ ~SendRetry(q) /\ ~\E f \in Docs : AskDelete(q, f)
      BY <1>1, <3>1 DEF RequestShape, BeforeTask, SendRecover, SendRetry, AskDelete, Ask, GoOn
    <3> QED
      BY <1>1, <3>1, <3>2 DEF RequestFrame, AskAbout, Request, AskPause, AskRecover, AskRetry,
         CommitPause, SetPausedKey, CommitRecover, DeletePausedKey, CommitRetry, SetRetryKey,
         RemoveRow, runs
  <2>2. CASE ~Acts(r, d)
    BY <1>4, <2>2, ActorsOfRequest
  <2> QED
    BY <2>1, <2>2
<1> QED
  BY <1>3, <1>4

LEMMA InitAlone == ASSUME Init, NEW d \in Docs PROVE Alone(d)
BY DEF Init, Alone, Acts, AtWork, Strong

LEMMA NextAlone ==
  ASSUME Typed, Shape, [Next]_vars, NEW d \in Docs, Alone(d)
  PROVE  Alone(d)'
<1>1. CASE UNCHANGED vars
  BY <1>1 DEF Alone, Acts, AtWork, vars, rows, requests, runs, history
<1>2. ASSUME NEW e \in Docs, ExpireRetryKey(e) PROVE Alone(d)'
  BY <1>2 DEF ExpireRetryKey, Alone, Acts, AtWork, rows, requests, runs, history
<1>3. ASSUME NEW q \in Requests, NEW e \in Docs, AskAbout(q, e) \/ Request(q) PROVE Alone(d)'
  <2> SUFFICES ASSUME ~overlapped'[d] PROVE Alone(d)'
    BY DEF Alone
  <2>1. ~overlapped[d]
    BY <1>3, RequestFrames DEF RequestFrame
  <2>2. ASSUME NEW r \in Runs, NEW s \in Runs, Acts(r, d)', Acts(s, d)' PROVE r = s
    BY <1>3, <2>1, <2>2, ActorsOfRequest DEF Alone
  <2> QED
    BY <1>3, <2>2, GoneByRequest DEF Alone
<1>4. ASSUME NEW r \in Runs, Run(r) \/ Crash(r) PROVE Alone(d)'
  BY <1>4, RunFrames, ActorsOfRun DEF Alone, RunFrame
<1> QED
  BY <1>1, <1>2, <1>3, <1>4, Steps

-----------------------------------------------------------------------------
(* Pauses *)

LEMMA CommittedActs ==
  ASSUME Typed, Shape, NEW r \in Runs, NEW d \in Docs, Committed(r, d)
  PROVE  Acts(r, d)
BY RunsAndDocs DEF Typed, TypeOK, Shape, RequestShape, Committed, RetryAhead, Acts, AtWork, Strong

(***************************************************************************)
(* A run writes the next status of a paused document only where it is      *)
(* committed to, and is not committed to the one after it.                 *)
(***************************************************************************)
LEMMA RunAdvances ==
  ASSUME Typed, Shape, NEW r \in Runs, Run(r) \/ Crash(r), NEW d \in Docs, isPaused[d]
  PROVE  /\ Committed(r, d)' => Committed(r, d) /\ advanced'[d] = advanced[d]
         /\ advanced'[d] # advanced[d] => Committed(r, d) /\ advanced'[d] = advanced[d] + 1
<1>1. /\ pc[r] \in StatesOf(kind[r]) /\ kind[r] \in Kinds
      /\ r = Upload => kind[r] = "index"
      /\ r \in Requests => RequestShape(r) /\ kind[r] # "index"
  BY DEF Shape, RequestShape, UploadShape, Typed, TypeOK
<1>2. /\ pc \in [Runs -> RunStates] /\ doc \in [Runs -> Docs \union {NoDoc}]
      /\ todo \in [Runs -> SUBSET Docs] /\ kind \in [Runs -> Kinds]
  BY DEF Typed, TypeOK
<1>3. pc[r] \notin {"none", "done"} /\ UNCHANGED <<kind, step, target>>
  BY RunFrames DEF RunFrame
<1>4. r \in Requests => step[r] \notin {"retryKey", "retryTask"}
  BY <1>1, <1>3 DEF RequestShape, BeforeTask, StatesOf
<1> USE <1>1, <1>2, <1>3, <1>4, RunsAndDocs DEF Move, StatesOf, OnDocument, Committed, RetryAhead,
        RequestShape, runs, history
<1>5. CASE StartIndex(r)
  BY <1>5 DEF StartIndex, Advance, Write
<1>6. CASE TakeDocument(r)
  BY <1>6 DEF TakeDocument
<1>7. CASE StartRecover(r)
  BY <1>7 DEF StartRecover, Resume
<1>8. CASE ClearSegments(r)
  BY <1>8 DEF ClearSegments
<1>9. CASE Reload(r)
  BY <1>9 DEF Reload
<1>10. CASE StartRetry(r)
  BY <1>10 DEF StartRetry, Write
<1>11. CASE CleanIndex(r)
  BY <1>11 DEF CleanIndex
<1>12. CASE CleanIndexFails(r)
  BY <1>12 DEF CleanIndexFails
<1>13. CASE CleanRows(r)
  BY <1>13 DEF CleanRows
<1>14. CASE SetParsing(r)
  <2>1. pc[r] = "setParsing" /\ kind[r] = "retry" /\ r \in Requests /\ doc[r] = target[r]
    BY <1>14 DEF SetParsing, Kinds
  <2>2. ~Committed(r, d)'
    BY <1>14, <2>1 DEF SetParsing
  <2>3. advanced'[d] # advanced[d] => doc[r] = d /\ advanced'[d] = advanced[d] + 1
    BY <1>14 DEF SetParsing, Advance
  <2> QED
    BY <2>1, <2>2, <2>3
<1>15. CASE UpdateStatus(r)
  <2>1. ASSUME NEW from \in {"extract", "add", "checkCompleted"},
               NEW next \in {"setSplitting", "setIndexing", "setCompleted"}, Check(r, from, next)
        PROVE  ~Committed(r, d)' /\ UNCHANGED advanced
    BY <2>1 DEF Check, MayGoOn
  <2>2. ASSUME NEW from \in {"setSplitting", "setIndexing", "setCompleted"},
               NEW next \in {"add", "mark", "next", "done", "unkey"}, NEW new,
               Update(r, from, next, new)
        PROVE  /\ ~Committed(r, d)'
               /\ advanced'[d] # advanced[d] => Committed(r, d) /\ advanced'[d] = advanced[d] + 1
    BY <2>2 DEF Update, Advance
  <2>3. CASE \/ Check(r, "extract", "setSplitting") \/ Check(r, "add", "setIndexing")
             \/ Check(r, "checkCompleted", "setCompleted")
    BY <2>1, <2>3
  <2>4. CASE \/ Update(r, "setSplitting", "add", StatusOnceExtracted)
             \/ Update(r, "setIndexing", "mark", "indexing")
             \/ Update(r, "setCompleted", AfterDocument(r), "completed")
    BY <2>2, <2>4, AfterDocumentTyped
  <2> QED
    BY <1>15, <2>3, <2>4 DEF UpdateStatus
<1>16. CASE AddSegment(r)
  BY <1>16 DEF AddSegment
<1>17. CASE MarkSegments(r)
  BY <1>17 DEF MarkSegments
<1>18. CASE Chunk(r)
  BY <1>18 DEF Chunk, ChunkChecks, ChunkIsStored, ChunkFails, ChunkCompletes, Step
<1>19. CASE Join(r)
  BY <1>19 DEF Join, Loaded
<1>20. CASE KeywordsAreStored(r)
  BY <1>20 DEF KeywordsAreStored
<1>21. CASE KeywordsComplete(r)
  BY <1>21 DEF KeywordsComplete, Loaded
<1>22. CASE KeywordThreadRaises(r)
  BY <1>22 DEF KeywordThreadRaises, Loaded
<1>23. CASE RunFails(r)
  BY <1>23 DEF RunFails
<1>24. CASE HandleError(r)
  BY <1>24 DEF HandleError, AfterDocument
<1>25. CASE IsPaused(r)
  BY <1>25 DEF IsPaused
<1>26. CASE RetryError(r)
  BY <1>26 DEF RetryError
<1>27. CASE DeleteRetryKey(r)
  BY <1>27 DEF DeleteRetryKey
<1>28. CASE StartClean(r)
  BY <1>28 DEF StartClean
<1>29. CASE WipeIndex(r)
  BY <1>29 DEF WipeIndex
<1>30. CASE WipeRows(r)
  BY <1>30 DEF WipeRows
<1>31. CASE Crash(r)
  BY <1>31 DEF Crash
<1> QED
  BY <1>5, <1>6, <1>7, <1>8, <1>9, <1>10, <1>11, <1>12, <1>13, <1>14, <1>15, <1>16, <1>17, <1>18, <1>19, <1>20, <1>21, <1>22, <1>23, <1>24, <1>25, <1>26, <1>27, <1>28, <1>29, <1>30, <1>31
     DEF Run

LEMMA InitPause == ASSUME Init, NEW d \in Docs PROVE PauseInv(d)
BY DEF Init, PauseInv

LEMMA NextPause ==
  ASSUME Typed, Shape, [Next]_vars, NEW d \in Docs, Alone(d), PauseInv(d)
  PROVE  PauseInv(d)'
<1>0. advanced[d] \in 0..2 /\ \A r \in Runs : Committed(r, d) => Acts(r, d)
  BY CommittedActs DEF Typed, TypeOK
<1>1. CASE UNCHANGED vars
  BY <1>1 DEF PauseInv, Committed, RetryAhead, vars, rows, requests, runs, history
<1>2. ASSUME NEW e \in Docs, ExpireRetryKey(e) PROVE PauseInv(d)'
  BY <1>2 DEF ExpireRetryKey, PauseInv, Committed, RetryAhead, rows, requests, runs, history
<1>3. ASSUME NEW q \in Requests, NEW e \in Docs, AskAbout(q, e) \/ Request(q) PROVE PauseInv(d)'
  <2> SUFFICES ASSUME ~overlapped'[d] PROVE PauseInv(d)'
    BY DEF PauseInv
  <2>1. ~overlapped[d] /\ RequestFrame(q) /\ RequestShape(q) /\ pc[q] \in StatesOf(kind[q])
    BY <1>3, RequestFrames, RunsAndDocs DEF RequestFrame, Shape
  <2>2. advanced'[d] \in {0, advanced[d]}
    BY <1>3 DEF AskAbout, Request, AskPause, AskRecover, AskRetry, AskDelete, NoteOverlap,
       CommitPause, SetPausedKey, CommitRecover, DeletePausedKey, SendRecover, CommitRetry,
       SetRetryKey, SendRetry, RemoveRow, history, Typed, TypeOK
  <2>3. isPaused'[d] => isPaused[d] \/ advanced'[d] = 0
    BY <1>3 DEF AskAbout, Request, AskPause, AskRecover, AskRetry, AskDelete,
       CommitPause, SetPausedKey, CommitRecover, DeletePausedKey, SendRecover, CommitRetry,
       SetRetryKey, SendRetry, RemoveRow, rows, Typed, TypeOK
  <2>4. ASSUME NEW r \in Runs, Committed(r, d)' PROVE Committed(r, d) \/ advanced'[d] = 0
    <3>1. CASE r # q
      BY <2>1, <2>4, <3>1 DEF RequestFrame, Committed, RetryAhead
    <3>2. CASE r = q
      <4> USE <2>1, <2>4, <3>2, RunsAndDocs DEF RequestShape, BeforeTask, StatesOf, OnDocument,
              Committed, RetryAhead, Ask, GoOn, Commit, Start, requests, runs, Typed, TypeOK
      <4>1. CASE AskAbout(q, e)
        BY <4>1 DEF AskAbout, AskPause, AskRecover, AskRetry, AskDelete
      <4>2. CASE CommitPause(q) \/ SetPausedKey(q)
        BY <4>2 DEF CommitPause, SetPausedKey
      <4>3. CASE CommitRecover(q) \/ DeletePausedKey(q) \/ SendRecover(q)
        BY <4>3 DEF CommitRecover, DeletePausedKey, SendRecover
      <4>4. CASE CommitRetry(q)
        BY <4>4 DEF CommitRetry
      <4>5. CASE SetRetryKey(q) \/ SendRetry(q)
        BY <4>5 DEF SetRetryKey, SendRetry
      <4>6. CASE RemoveRow(q)
        BY <4>6 DEF RemoveRow
      <4> QED
        BY <1>3, <4>1, <4>2, <4>3, <4>4, <4>5, <4>6 DEF Request
    <3> QED
      BY <3>1, <3>2
  <2> QED
    BY <1>0, <2>1, <2>2, <2>3, <2>4 DEF PauseInv
<1>4. ASSUME NEW r \in Runs, Run(r) \/ Crash(r) PROVE PauseInv(d)'
  <2> SUFFICES ASSUME ~overlapped'[d] PROVE PauseInv(d)'
    BY DEF PauseInv
  <2>1. RunFrame(r) /\ ~overlapped[d]
    BY <1>4, RunFrames DEF RunFrame
  <2>2. CASE ~isPaused[d]
    BY <2>1, <2>2 DEF PauseInv, RunFrame
  <2>3. CASE isPaused[d]
    <3>1. /\ Committed(r, d)' => Committed(r, d) /\ advanced'[d] = advanced[d]
          /\ advanced'[d] # advanced[d] => Committed(r, d) /\ advanced'[d] = advanced[d] + 1
      BY <1>4, <2>3, RunAdvances
    <3>2. ASSUME NEW s \in Runs \ {r}, Committed(s, d)' PROVE Committed(s, d)
      BY <2>1, <3>2 DEF RunFrame, Committed, RetryAhead
    <3>3. \A s \in Runs : Committed(s, d) /\ Committed(r, d) => s = r
      BY <1>0, <2>1 DEF Alone
    <3> QED
      BY <1>0, <2>1, <2>3, <3>1, <3>2, <3>3 DEF PauseInv
  <2> QED
    BY <2>2, <2>3
<1> QED
  BY <1>1, <1>2, <1>3, <1>4, Steps

(***************************************************************************)
(* A run takes a paused document at most one status further, whatever the  *)
(* number of documents, runs and dying workers, if users wait before they  *)
(* recover, retry or delete it.                                            *)
(***************************************************************************)
THEOREM PausesHold == Safety => []PauseHolds
<1> DEFINE Inv == Typed /\ Shape /\ \A d \in Docs : Alone(d) /\ PauseInv(d)
<1>1. Init => Inv
  BY InitTyped, InitShape, InitAlone, InitPause
<1>2. Inv /\ [Next]_vars => Inv'
  BY NextTyped, NextShape, NextAlone, NextPause
<1>3. Inv => PauseHolds
  BY DEF PauseHolds, PauseInv
<1> QED
  BY <1>1, <1>2, <1>3, PTL DEF Safety

-----------------------------------------------------------------------------
(* What runs hold *)

LEMMA RunHolds ==
  ASSUME Typed, Shape, NEW r \in Runs, Run(r) \/ Crash(r), HeldBy(r)
  PROVE  HeldBy(r)'
<1>1. /\ pc \in [Runs -> RunStates] /\ nodes \in [Runs -> SUBSET Nodes]
      /\ thread \in [Runs -> [Nodes -> ThreadStates]]
      /\ pc[r] \in StatesOf(kind[r]) /\ kind[r] \in Kinds /\ technique' = technique
  BY RunFrames DEF Typed, TypeOK, Shape, RunFrame
<1> USE <1>1 DEF HeldBy, EmptyHanded, Move, StatesOf, OnDocument, Kinds, runs
<1>2. CASE StartIndex(r)
  BY <1>2 DEF StartIndex
<1>3. CASE TakeDocument(r)
  BY <1>3 DEF TakeDocument
<1>4. CASE StartRecover(r)
  BY <1>4 DEF StartRecover, Resume
<1>5. CASE ClearSegments(r)
  BY <1>5 DEF ClearSegments
<1>6. CASE Reload(r)
  BY <1>6 DEF Reload, Load
<1>7. CASE StartRetry(r)
  BY <1>7 DEF StartRetry
<1>8. CASE CleanIndex(r)
  BY <1>8 DEF CleanIndex
<1>9. CASE CleanIndexFails(r)
  BY <1>9 DEF CleanIndexFails
<1>10. CASE CleanRows(r)
  BY <1>10 DEF CleanRows
<1>11. CASE SetParsing(r)
  BY <1>11 DEF SetParsing
<1>12. CASE UpdateStatus(r)
  BY <1>12 DEF UpdateStatus, Check, Update, AfterDocument
<1>13. CASE AddSegment(r)
  <2>1. PICK c \in Missing(r) : nodes'[r] = nodes[r] \union {<<r, c>>}
    BY <1>13 DEF AddSegment
  <2> QED
    BY <1>13, <2>1 DEF AddSegment, Missing
<1>14. CASE MarkSegments(r)
  BY <1>14 DEF MarkSegments, Load
<1>15. CASE Chunk(r)
  BY <1>15 DEF Chunk, ChunkChecks, ChunkIsStored, ChunkFails, ChunkCompletes, Step
<1>16. CASE Join(r)
  BY <1>16 DEF Join, Loaded
<1>17. CASE KeywordsAreStored(r)
  BY <1>17 DEF KeywordsAreStored
<1>18. CASE KeywordsComplete(r)
  BY <1>18 DEF KeywordsComplete, Loaded
<1>19. CASE KeywordThreadRaises(r)
  BY <1>19 DEF KeywordThreadRaises, Loaded
<1>20. CASE RunFails(r)
  BY <1>20 DEF RunFails
<1>21. CASE HandleError(r)
  BY <1>21 DEF HandleError, AfterDocument
<1>22. CASE IsPaused(r)
  BY <1>22 DEF IsPaused
<1>23. CASE RetryError(r)
  BY <1>23 DEF RetryError
<1>24. CASE DeleteRetryKey(r)
  BY <1>24 DEF DeleteRetryKey
<1>25. CASE StartClean(r)
  BY <1>25 DEF StartClean
<1>26. CASE WipeIndex(r)
  BY <1>26 DEF WipeIndex
<1>27. CASE WipeRows(r)
  BY <1>27 DEF WipeRows
<1>28. CASE Crash(r)
  BY <1>28 DEF Crash
<1> QED
  BY <1>2, <1>3, <1>4, <1>5, <1>6, <1>7, <1>8, <1>9, <1>10, <1>11, <1>12, <1>13, <1>14, <1>15,
     <1>16, <1>17, <1>18, <1>19, <1>20, <1>21, <1>22, <1>23, <1>24, <1>25, <1>26, <1>27, <1>28
     DEF Run

LEMMA InitHeld == Init => Held
BY DEF Init, Held, HeldBy

LEMMA NextHeld == Typed /\ Shape /\ Held /\ [Next]_vars => Held'
<1> SUFFICES ASSUME Typed, Shape, Held, [Next]_vars, NEW s \in Runs PROVE HeldBy(s)'
  BY DEF Held
<1>1. HeldBy(s)
  BY DEF Held
<1>2. CASE UNCHANGED vars
  BY <1>1, <1>2 DEF HeldBy, vars, rows, runs
<1>3. ASSUME NEW d \in Docs, ExpireRetryKey(d) PROVE HeldBy(s)'
  BY <1>1, <1>3 DEF ExpireRetryKey, HeldBy, rows, runs
<1>4. ASSUME NEW q \in Requests, NEW d \in Docs, AskAbout(q, d) \/ Request(q) PROVE HeldBy(s)'
  BY <1>1, <1>4, RequestFrames, RequestMoves DEF RequestFrame, HeldBy, EmptyHanded
<1>5. ASSUME NEW r \in Runs, Run(r) \/ Crash(r) PROVE HeldBy(s)'
  BY <1>1, <1>5, RunHolds, RunFrames DEF RunFrame, HeldBy
<1> QED
  BY <1>2, <1>3, <1>4, <1>5, Steps

(***************************************************************************)
(* A segment appears only where the run that adds it had it still to add.  *)
(***************************************************************************)
LEMMA SegmentsAppear ==
  ASSUME Typed, Shape, NEW r \in Runs, Run(r) \/ Crash(r), NEW d \in Docs, NEW n \in Nodes,
         segment[d][n] = "none", segment'[d][n] # "none"
  PROVE  /\ doc[r] = d /\ doc'[r] = d /\ pc[r] = "add" /\ pc'[r] = "add"
         /\ \E c \in Chunks : n = <<r, c>>
         /\ n \notin nodes[r] /\ n \in nodes'[r]
<1>1. /\ pc \in [Runs -> RunStates] /\ nodes \in [Runs -> SUBSET Nodes]
      /\ segment \in [Docs -> [Nodes -> SegmentStates]]
  BY DEF Typed, TypeOK
<1> USE <1>1 DEF Move, data
<1>2. CASE StartIndex(r)
  BY <1>2 DEF StartIndex
<1>3. CASE TakeDocument(r)
  BY <1>3 DEF TakeDocument
<1>4. CASE StartRecover(r)
  BY <1>4 DEF StartRecover, Resume
<1>5. CASE ClearSegments(r)
  BY <1>5 DEF ClearSegments, WithoutSegments
<1>6. CASE Reload(r)
  BY <1>6 DEF Reload, Load
<1>7. CASE StartRetry(r)
  BY <1>7 DEF StartRetry
<1>8. CASE CleanIndex(r)
  BY <1>8 DEF CleanIndex
<1>9. CASE CleanIndexFails(r)
  BY <1>9 DEF CleanIndexFails
<1>10. CASE CleanRows(r)
  BY <1>10 DEF CleanRows, WithoutSegments
<1>11. CASE SetParsing(r)
  BY <1>11 DEF SetParsing
<1>12. CASE UpdateStatus(r)
  BY <1>12 DEF UpdateStatus, Check, Update, AfterDocument
<1>13. CASE AddSegment(r)
  BY <1>13 DEF AddSegment, Missing
<1>14. CASE MarkSegments(r)
  BY <1>14 DEF MarkSegments, Load
<1>15. CASE Chunk(r)
  BY <1>15 DEF Chunk, ChunkChecks, ChunkIsStored, ChunkFails, ChunkCompletes, ToComplete, Step
<1>16. CASE Join(r)
  BY <1>16 DEF Join, Loaded
<1>17. CASE KeywordsAreStored(r)
  BY <1>17 DEF KeywordsAreStored
<1>18. CASE KeywordsComplete(r)
  BY <1>18 DEF KeywordsComplete, Loaded
<1>19. CASE KeywordThreadRaises(r)
  BY <1>19 DEF KeywordThreadRaises, Loaded
<1>20. CASE RunFails(r)
  BY <1>20 DEF RunFails
<1>21. CASE HandleError(r)
  BY <1>21 DEF HandleError, AfterDocument
<1>22. CASE IsPaused(r)
  BY <1>22 DEF IsPaused
<1>23. CASE RetryError(r)
  BY <1>23 DEF RetryError
<1>24. CASE DeleteRetryKey(r)
  BY <1>24 DEF DeleteRetryKey
<1>25. CASE StartClean(r)
  BY <1>25 DEF StartClean
<1>26. CASE WipeIndex(r)
  BY <1>26 DEF WipeIndex
<1>27. CASE WipeRows(r)
  BY <1>27 DEF WipeRows, WithoutSegments
<1>28. CASE Crash(r)
  BY <1>28 DEF Crash
<1> QED
  BY <1>2, <1>3, <1>4, <1>5, <1>6, <1>7, <1>8, <1>9, <1>10, <1>11, <1>12, <1>13, <1>14, <1>15,
     <1>16, <1>17, <1>18, <1>19, <1>20, <1>21, <1>22, <1>23, <1>24, <1>25, <1>26, <1>27, <1>28
     DEF Run

(***************************************************************************)
(* What a run comes to hold is a segment of its document, or one that it   *)
(* was to add and now has added.                                           *)
(***************************************************************************)
LEMMA NodesAppear ==
  ASSUME Typed, Shape, NEW r \in Runs, Run(r) \/ Crash(r), HeldBy(r), NEW n \in nodes'[r]
  PROVE  \/ n \in nodes[r] /\ doc'[r] = doc[r]
         \/ doc'[r] \in Docs /\ segment[doc'[r]][n] # "none"
         \/ n \in {r} \X Chunks /\ pc'[r] \in {"add", "load"}
<1>1. /\ pc \in [Runs -> RunStates] /\ nodes \in [Runs -> SUBSET Nodes]
      /\ segment \in [Docs -> [Nodes -> SegmentStates]] /\ doc \in [Runs -> Docs \union {NoDoc}]
      /\ pc[r] \in StatesOf(kind[r]) /\ kind[r] \in Kinds /\ todo[r] \subseteq Docs
      /\ r \in Requests => kind[r] # "index" /\ (pc[r] \notin {"none", "queued"} => doc[r] = target[r])
      /\ r \in Requests => (step[r] # "new" => target[r] \in Docs) /\ (step[r] = "new" => kind[r] = "none")
      /\ r = Upload => /\ kind[r] = "index"
                       /\ pc[r] \notin {"queued", "next", "done"} => doc[r] \in Docs
  BY DEF Typed, TypeOK, Shape, RequestShape, UploadShape, BeforeTask
<1> USE <1>1, RunsAndDocs DEF HeldBy, EmptyHanded, Move, StatesOf, OnDocument, Kinds, runs, SegmentsOf
<1>2. CASE StartIndex(r)
  BY <1>2 DEF StartIndex
<1>3. CASE TakeDocument(r)
  BY <1>3 DEF TakeDocument
<1>4. CASE StartRecover(r)
  BY <1>4 DEF StartRecover, Resume
<1>5. CASE ClearSegments(r)
  BY <1>5 DEF ClearSegments
<1>6. CASE Reload(r)
  BY <1>6 DEF Reload, Load, Unindexed
<1>7. CASE StartRetry(r)
  BY <1>7 DEF StartRetry
<1>8. CASE CleanIndex(r)
  BY <1>8 DEF CleanIndex
<1>9. CASE CleanIndexFails(r)
  BY <1>9 DEF CleanIndexFails
<1>10. CASE CleanRows(r)
  BY <1>10 DEF CleanRows
<1>11. CASE SetParsing(r)
  BY <1>11 DEF SetParsing
<1>12. CASE UpdateStatus(r)
  BY <1>12 DEF UpdateStatus, Check, Update, AfterDocument
<1>13. CASE AddSegment(r)
  BY <1>13 DEF AddSegment, Missing
<1>14. CASE MarkSegments(r)
  BY <1>14 DEF MarkSegments, Load
<1>15. CASE Chunk(r)
  BY <1>15 DEF Chunk, ChunkChecks, ChunkIsStored, ChunkFails, ChunkCompletes, Step
<1>16. CASE Join(r)
  BY <1>16 DEF Join, Loaded
<1>17. CASE KeywordsAreStored(r)
  BY <1>17 DEF KeywordsAreStored
<1>18. CASE KeywordsComplete(r)
  BY <1>18 DEF KeywordsComplete, Loaded
<1>19. CASE KeywordThreadRaises(r)
  BY <1>19 DEF KeywordThreadRaises, Loaded
<1>20. CASE RunFails(r)
  BY <1>20 DEF RunFails
<1>21. CASE HandleError(r)
  BY <1>21 DEF HandleError, AfterDocument
<1>22. CASE IsPaused(r)
  BY <1>22 DEF IsPaused
<1>23. CASE RetryError(r)
  BY <1>23 DEF RetryError
<1>24. CASE DeleteRetryKey(r)
  BY <1>24 DEF DeleteRetryKey
<1>25. CASE StartClean(r)
  BY <1>25 DEF StartClean
<1>26. CASE WipeIndex(r)
  BY <1>26 DEF WipeIndex
<1>27. CASE WipeRows(r)
  BY <1>27 DEF WipeRows
<1>28. CASE Crash(r)
  BY <1>28 DEF Crash
<1> QED
  BY <1>2, <1>3, <1>4, <1>5, <1>6, <1>7, <1>8, <1>9, <1>10, <1>11, <1>12, <1>13, <1>14, <1>15,
     <1>16, <1>17, <1>18, <1>19, <1>20, <1>21, <1>22, <1>23, <1>24, <1>25, <1>26, <1>27, <1>28
     DEF Run

(***************************************************************************)
(* A run that has still to add a segment had it before the step.           *)
(***************************************************************************)
LEMMA RunWillAdd ==
  ASSUME Typed, Shape, NEW r \in Runs, Run(r) \/ Crash(r), NEW c \in Chunks, NEW d \in Docs,
         WillAdd(r, c, d)'
  PROVE  WillAdd(r, c, d)
<1>1. /\ pc \in [Runs -> RunStates] /\ doc \in [Runs -> Docs \union {NoDoc}]
      /\ nodes \in [Runs -> SUBSET Nodes] /\ todo \in [Runs -> SUBSET Docs]
      /\ pc[r] \in StatesOf(kind[r]) /\ kind[r] \in Kinds
  BY DEF Typed, TypeOK, Shape
<1> USE <1>1 DEF WillAdd, Move, StatesOf, OnDocument, Kinds, runs
<1>2. CASE StartIndex(r)
  BY <1>2 DEF StartIndex
<1>3. CASE TakeDocument(r)
  BY <1>3 DEF TakeDocument
<1>4. CASE StartRecover(r)
  BY <1>4 DEF StartRecover, Resume
<1>5. CASE ClearSegments(r)
  BY <1>5 DEF ClearSegments
<1>6. CASE Reload(r)
  BY <1>6 DEF Reload, Load
<1>7. CASE StartRetry(r)
  BY <1>7 DEF StartRetry
<1>8. CASE CleanIndex(r)
  BY <1>8 DEF CleanIndex
<1>9. CASE CleanIndexFails(r)
  BY <1>9 DEF CleanIndexFails
<1>10. CASE CleanRows(r)
  BY <1>10 DEF CleanRows
<1>11. CASE SetParsing(r)
  BY <1>11 DEF SetParsing
<1>12. CASE UpdateStatus(r)
  BY <1>12 DEF UpdateStatus, Check, Update, AfterDocument
<1>13. CASE AddSegment(r)
  BY <1>13 DEF AddSegment
<1>14. CASE MarkSegments(r)
  BY <1>14 DEF MarkSegments, Load
<1>15. CASE Chunk(r)
  BY <1>15 DEF Chunk, ChunkChecks, ChunkIsStored, ChunkFails, ChunkCompletes, Step
<1>16. CASE Join(r)
  BY <1>16 DEF Join, Loaded
<1>17. CASE KeywordsAreStored(r)
  BY <1>17 DEF KeywordsAreStored
<1>18. CASE KeywordsComplete(r)
  BY <1>18 DEF KeywordsComplete, Loaded
<1>19. CASE KeywordThreadRaises(r)
  BY <1>19 DEF KeywordThreadRaises, Loaded
<1>20. CASE RunFails(r)
  BY <1>20 DEF RunFails
<1>21. CASE HandleError(r)
  BY <1>21 DEF HandleError, AfterDocument
<1>22. CASE IsPaused(r)
  BY <1>22 DEF IsPaused
<1>23. CASE RetryError(r)
  BY <1>23 DEF RetryError
<1>24. CASE DeleteRetryKey(r)
  BY <1>24 DEF DeleteRetryKey
<1>25. CASE StartClean(r)
  BY <1>25 DEF StartClean
<1>26. CASE WipeIndex(r)
  BY <1>26 DEF WipeIndex
<1>27. CASE WipeRows(r)
  BY <1>27 DEF WipeRows
<1>28. CASE Crash(r)
  BY <1>28 DEF Crash
<1> QED
  BY <1>2, <1>3, <1>4, <1>5, <1>6, <1>7, <1>8, <1>9, <1>10, <1>11, <1>12, <1>13, <1>14, <1>15,
     <1>16, <1>17, <1>18, <1>19, <1>20, <1>21, <1>22, <1>23, <1>24, <1>25, <1>26, <1>27, <1>28
     DEF Run

LEMMA RequestWillAdd ==
  ASSUME Typed, Shape, NEW q \in Requests, NEW e \in Docs, AskAbout(q, e) \/ Request(q),
         NEW r \in Runs, NEW c \in Chunks, NEW d \in Docs, WillAdd(r, c, d)'
  PROVE  WillAdd(r, c, d)
<1>1. RequestFrame(q) /\ RequestShape(q) /\ pc[q] \in StatesOf(kind[q]) /\ q \in Runs
  BY RequestFrames, RunsAndDocs DEF Shape
<1>2. RequestShape(q)' /\ (pc'[q] # pc[q] => pc[q] = "none")
  BY RequestMoves
<1>3. CASE r # q
  BY <1>1, <1>3 DEF RequestFrame, WillAdd
<1>4. CASE r = q /\ pc'[q] = pc[q]
  <2>1. pc[q] = "queued" => step[q] # "new"
    BY <1>1 DEF RequestShape, BeforeTask, StatesOf
  <2> QED
    BY <1>1, <1>2, <1>4, <2>1 DEF RequestFrame, RequestShape, WillAdd
<1> QED
  BY <1>2, <1>3, <1>4 DEF WillAdd

LEMMA InitFresh == Init => Fresh
BY DEF Init, Fresh, WillAdd, Nodes

LEMMA NextFresh == Typed /\ Shape /\ Held /\ Fresh /\ [Next]_vars => Fresh'
<1> SUFFICES ASSUME Typed, Shape, Held, Fresh, [Next]_vars,
                    NEW r \in Runs, NEW c \in Chunks, NEW d \in Docs, WillAdd(r, c, d)'
             PROVE  /\ segment'[d][<<r, c>>] = "none"
                    /\ \A s \in Runs : doc'[s] = d => <<r, c>> \notin nodes'[s]
  BY DEF Fresh
<1>1. CASE UNCHANGED vars
  BY <1>1 DEF Fresh, WillAdd, vars, data, runs
<1>2. ASSUME NEW e \in Docs, ExpireRetryKey(e)
      PROVE  /\ segment'[d][<<r, c>>] = "none"
             /\ \A s \in Runs : doc'[s] = d => <<r, c>> \notin nodes'[s]
  BY <1>2 DEF ExpireRetryKey, Fresh, WillAdd, data, runs
<1>3. ASSUME NEW q \in Requests, NEW e \in Docs, AskAbout(q, e) \/ Request(q)
      PROVE  /\ segment'[d][<<r, c>>] = "none"
             /\ \A s \in Runs : doc'[s] = d => <<r, c>> \notin nodes'[s]
  BY <1>3, RequestFrames, RequestWillAdd DEF RequestFrame, Fresh
<1>4. ASSUME NEW s \in Runs, Run(s) \/ Crash(s)
      PROVE  /\ segment'[d][<<r, c>>] = "none"
             /\ \A t \in Runs : doc'[t] = d => <<r, c>> \notin nodes'[t]
  <2>1. RunFrame(s) /\ Moved(s) /\ HeldBy(s)
    BY <1>4, RunFrames, RunMoves DEF Held
  <2>2. WillAdd(r, c, d)
    <3>1. r # s => WillAdd(r, c, d)
      BY <2>1 DEF RunFrame, WillAdd
    <3> QED
      BY <1>4, <3>1, RunWillAdd
  <2>3. <<r, c>> \in Nodes /\ segment[d][<<r, c>>] = "none"
        /\ \A t \in Runs : doc[t] = d => <<r, c>> \notin nodes[t]
    BY <2>2 DEF Fresh, Nodes
  <2>4. ~(r = s /\ pc'[s] \in {"add", "load"} /\ doc'[s] = d /\ <<r, c>> \in nodes'[s])
    BY <2>1, RunsAndDocs DEF WillAdd, Moved
  <2>5. segment'[d][<<r, c>>] = "none"
    BY <1>4, <2>3, <2>4, SegmentsAppear
  <2>6. ASSUME doc'[s] = d, <<r, c>> \in nodes'[s] PROVE FALSE
    BY <1>4, <2>1, <2>3, <2>4, <2>6, NodesAppear
  <2> QED
    BY <2>1, <2>3, <2>5, <2>6 DEF RunFrame
<1> QED
  BY <1>1, <1>2, <1>3, <1>4, Steps

-----------------------------------------------------------------------------
(* Completed segments are in the index *)

(***************************************************************************)
(* What vouches for a segment lasts as long as the segment.                *)
(***************************************************************************)
LEMMA VouchedLasts ==
  ASSUME Typed, Shape, NEW r \in Runs, Run(r), NEW d \in Docs, NEW n \in Nodes, Vouched(d, n)
  PROVE  Vouched(d, n)' \/ segment'[d][n] = "none"
<1>1. /\ pc \in [Runs -> RunStates] /\ nodes \in [Runs -> SUBSET Nodes]
      /\ segment \in [Docs -> [Nodes -> SegmentStates]] /\ index \in [Docs -> SUBSET Nodes]
      /\ doc \in [Runs -> Docs \union {NoDoc}] /\ pc[r] \in StatesOf(kind[r]) /\ kind[r] \in Kinds
  BY DEF Typed, TypeOK, Shape
<1>2. CASE \E s \in Runs \ {r} : doc[s] = d /\ n \in nodes[s] /\ pc[s] \in {"cleanRows", "wipeRows"}
  BY <1>2, RunFrames DEF RunFrame, Vouched
<1>3. CASE n \in index[d] \/ (doc[r] = d /\ n \in nodes[r] /\ pc[r] \in {"cleanRows", "wipeRows"})
  <2> USE <1>1, <1>3 DEF Vouched, Move, StatesOf, OnDocument, Kinds, runs, data
<2>4. CASE StartIndex(r)
  BY <2>4 DEF StartIndex
<2>5. CASE TakeDocument(r)
  BY <2>5 DEF TakeDocument
<2>6. CASE StartRecover(r)
  BY <2>6 DEF StartRecover, Resume
<2>7. CASE ClearSegments(r)
  BY <2>7 DEF ClearSegments, WithoutSegments, ToClear, SegmentsOf
<2>8. CASE Reload(r)
  BY <2>8 DEF Reload, Load
<2>9. CASE StartRetry(r)
  BY <2>9 DEF StartRetry
<2>10. CASE CleanIndex(r)
  BY <2>10 DEF CleanIndex, InIndexToClean
<2>11. CASE CleanIndexFails(r)
  BY <2>11 DEF CleanIndexFails
<2>12. CASE CleanRows(r)
  BY <2>12 DEF CleanRows, WithoutSegments
<2>13. CASE SetParsing(r)
  BY <2>13 DEF SetParsing
<2>14. CASE UpdateStatus(r)
  BY <2>14 DEF UpdateStatus, Check, Update, AfterDocument
<2>15. CASE AddSegment(r)
  BY <2>15 DEF AddSegment
<2>16. CASE MarkSegments(r)
  BY <2>16 DEF MarkSegments, Load
<2>17. CASE Chunk(r)
  BY <2>17 DEF Chunk, ChunkChecks, ChunkIsStored, ChunkFails, ChunkCompletes, Step, ToComplete
<2>18. CASE Join(r)
  BY <2>18 DEF Join, Loaded
<2>19. CASE KeywordsAreStored(r)
  BY <2>19 DEF KeywordsAreStored
<2>20. CASE KeywordsComplete(r)
  BY <2>20 DEF KeywordsComplete, Loaded
<2>21. CASE KeywordThreadRaises(r)
  BY <2>21 DEF KeywordThreadRaises, Loaded
<2>22. CASE RunFails(r)
  BY <2>22 DEF RunFails
<2>23. CASE HandleError(r)
  BY <2>23 DEF HandleError, AfterDocument
<2>24. CASE IsPaused(r)
  BY <2>24 DEF IsPaused
<2>25. CASE RetryError(r)
  BY <2>25 DEF RetryError
<2>26. CASE DeleteRetryKey(r)
  BY <2>26 DEF DeleteRetryKey
<2>27. CASE StartClean(r)
  BY <2>27 DEF StartClean
<2>28. CASE WipeIndex(r)
  BY <2>28 DEF WipeIndex
<2>29. CASE WipeRows(r)
  BY <2>29 DEF WipeRows, WithoutSegments, ToWipe, SegmentsOf
<2> QED
  BY <2>4, <2>5, <2>6, <2>7, <2>8, <2>9, <2>10, <2>11, <2>12, <2>13, <2>14, <2>15, <2>16,
     <2>17, <2>18, <2>19, <2>20, <2>21, <2>22, <2>23, <2>24, <2>25, <2>26, <2>27, <2>28, <2>29
     DEF Run
<1> QED
  BY <1>2, <1>3 DEF Vouched

LEMMA StoredAppears ==
  ASSUME Typed, Shape, NEW r \in Runs, Run(r), NEW n \in Nodes, Stored(r, n)'
  PROVE  doc'[r] = doc[r] /\ (Stored(r, n) \/ (doc[r] \in Docs => n \in index'[doc[r]]))
<1>1. /\ pc \in [Runs -> RunStates] /\ nodes \in [Runs -> SUBSET Nodes]
      /\ thread \in [Runs -> [Nodes -> ThreadStates]] /\ index \in [Docs -> SUBSET Nodes]
      /\ pc[r] \in StatesOf(kind[r]) /\ kind[r] \in Kinds
  BY DEF Typed, TypeOK, Shape
<1> USE <1>1 DEF Stored, Move, StatesOf, OnDocument, Kinds, runs, data
<1>2. CASE StartIndex(r)
  BY <1>2 DEF StartIndex
<1>3. CASE TakeDocument(r)
  BY <1>3 DEF TakeDocument
<1>4. CASE StartRecover(r)
  BY <1>4 DEF StartRecover, Resume
<1>5. CASE ClearSegments(r)
  BY <1>5 DEF ClearSegments
<1>6. CASE Reload(r)
  BY <1>6 DEF Reload, Load
<1>7. CASE StartRetry(r)
  BY <1>7 DEF StartRetry
<1>8. CASE CleanIndex(r)
  BY <1>8 DEF CleanIndex
<1>9. CASE CleanIndexFails(r)
  BY <1>9 DEF CleanIndexFails
<1>10. CASE CleanRows(r)
  BY <1>10 DEF CleanRows
<1>11. CASE SetParsing(r)
  BY <1>11 DEF SetParsing
<1>12. CASE UpdateStatus(r)
  BY <1>12 DEF UpdateStatus, Check, Update, AfterDocument
<1>13. CASE AddSegment(r)
  BY <1>13 DEF AddSegment
<1>14. CASE MarkSegments(r)
  BY <1>14 DEF MarkSegments, Load
<1>15. CASE Chunk(r)
  BY <1>15 DEF Chunk, ChunkChecks, ChunkIsStored, ChunkFails, ChunkCompletes, Step
<1>16. CASE Join(r)
  BY <1>16 DEF Join, Loaded
<1>17. CASE KeywordsAreStored(r)
  BY <1>17 DEF KeywordsAreStored
<1>18. CASE KeywordsComplete(r)
  BY <1>18 DEF KeywordsComplete, Loaded
<1>19. CASE KeywordThreadRaises(r)
  BY <1>19 DEF KeywordThreadRaises, Loaded
<1>20. CASE RunFails(r)
  BY <1>20 DEF RunFails
<1>21. CASE HandleError(r)
  BY <1>21 DEF HandleError, AfterDocument
<1>22. CASE IsPaused(r)
  BY <1>22 DEF IsPaused
<1>23. CASE RetryError(r)
  BY <1>23 DEF RetryError
<1>24. CASE DeleteRetryKey(r)
  BY <1>24 DEF DeleteRetryKey
<1>25. CASE StartClean(r)
  BY <1>25 DEF StartClean
<1>26. CASE WipeIndex(r)
  BY <1>26 DEF WipeIndex
<1>27. CASE WipeRows(r)
  BY <1>27 DEF WipeRows
<1> QED
  BY <1>2, <1>3, <1>4, <1>5, <1>6, <1>7, <1>8, <1>9, <1>10, <1>11, <1>12, <1>13, <1>14, <1>15,
     <1>16, <1>17, <1>18, <1>19, <1>20, <1>21, <1>22, <1>23, <1>24, <1>25, <1>26, <1>27
     DEF Run

(***************************************************************************)
(* A segment becomes completed only once it is stored.                     *)
(***************************************************************************)
LEMMA CompletedOnceStored ==
  ASSUME Typed, NEW r \in Runs, Run(r), NEW d \in Docs, NEW n \in Nodes,
         segment'[d][n] = "completed"
  PROVE  segment[d][n] = "completed" \/ (doc[r] = d /\ Stored(r, n) /\ segment[d][n] # "none")
<1>1. /\ pc \in [Runs -> RunStates] /\ nodes \in [Runs -> SUBSET Nodes]
      /\ thread \in [Runs -> [Nodes -> ThreadStates]]
      /\ segment \in [Docs -> [Nodes -> SegmentStates]]
  BY DEF Typed, TypeOK
<1> USE <1>1 DEF Stored, Move, runs, data
<1>2. CASE StartIndex(r)
  BY <1>2 DEF StartIndex
<1>3. CASE TakeDocument(r)
  BY <1>3 DEF TakeDocument
<1>4. CASE StartRecover(r)
  BY <1>4 DEF StartRecover, Resume
<1>5. CASE ClearSegments(r)
  BY <1>5 DEF ClearSegments, WithoutSegments, ToClear, SegmentsOf
<1>6. CASE Reload(r)
  BY <1>6 DEF Reload, Load
<1>7. CASE StartRetry(r)
  BY <1>7 DEF StartRetry
<1>8. CASE CleanIndex(r)
  BY <1>8 DEF CleanIndex, InIndexToClean
<1>9. CASE CleanIndexFails(r)
  BY <1>9 DEF CleanIndexFails
<1>10. CASE CleanRows(r)
  BY <1>10 DEF CleanRows, WithoutSegments
<1>11. CASE SetParsing(r)
  BY <1>11 DEF SetParsing
<1>12. CASE UpdateStatus(r)
  BY <1>12 DEF UpdateStatus, Check, Update, AfterDocument
<1>13. CASE AddSegment(r)
  BY <1>13 DEF AddSegment
<1>14. CASE MarkSegments(r)
  BY <1>14 DEF MarkSegments, Load
<1>15. CASE Chunk(r)
  BY <1>15 DEF Chunk, ChunkChecks, ChunkIsStored, ChunkFails, ChunkCompletes, Step, ToComplete
<1>16. CASE Join(r)
  BY <1>16 DEF Join, Loaded
<1>17. CASE KeywordsAreStored(r)
  BY <1>17 DEF KeywordsAreStored
<1>18. CASE KeywordsComplete(r)
  BY <1>18 DEF KeywordsComplete, Loaded
<1>19. CASE KeywordThreadRaises(r)
  BY <1>19 DEF KeywordThreadRaises, Loaded
<1>20. CASE RunFails(r)
  BY <1>20 DEF RunFails
<1>21. CASE HandleError(r)
  BY <1>21 DEF HandleError, AfterDocument
<1>22. CASE IsPaused(r)
  BY <1>22 DEF IsPaused
<1>23. CASE RetryError(r)
  BY <1>23 DEF RetryError
<1>24. CASE DeleteRetryKey(r)
  BY <1>24 DEF DeleteRetryKey
<1>25. CASE StartClean(r)
  BY <1>25 DEF StartClean
<1>26. CASE WipeIndex(r)
  BY <1>26 DEF WipeIndex
<1>27. CASE WipeRows(r)
  BY <1>27 DEF WipeRows, WithoutSegments, ToWipe, SegmentsOf
<1> QED
  BY <1>2, <1>3, <1>4, <1>5, <1>6, <1>7, <1>8, <1>9, <1>10, <1>11, <1>12, <1>13, <1>14, <1>15,
     <1>16, <1>17, <1>18, <1>19, <1>20, <1>21, <1>22, <1>23, <1>24, <1>25, <1>26, <1>27
     DEF Run

LEMMA InitIndexed == Init => IndexedInv
BY DEF Init, IndexedInv, Stored

LEMMA NextIndexed ==
  Typed /\ Shape /\ Held /\ Fresh /\ IndexedInv /\ [Next]_vars => IndexedInv'
<1> SUFFICES ASSUME Typed, Shape, Held, Fresh, IndexedInv, [Next]_vars, crashed' = {},
                    NEW d \in Docs, NEW n \in Nodes
             PROVE  /\ segment'[d][n] = "completed" => Vouched(d, n)'
                    /\ \A r \in Runs : doc'[r] = d /\ Stored(r, n)' =>
                         segment'[d][n] = "none" \/ Vouched(d, n)'
  BY DEF IndexedInv
<1> DEFINE Kept == /\ segment'[d][n] = "completed" => Vouched(d, n)'
                   /\ \A r \in Runs : doc'[r] = d /\ Stored(r, n)' =>
                        segment'[d][n] = "none" \/ Vouched(d, n)'
<1>1. CASE UNCHANGED vars
  BY <1>1 DEF IndexedInv, Vouched, Stored, vars, data, runs, history
<1>2. ASSUME NEW e \in Docs, ExpireRetryKey(e) PROVE Kept
  BY <1>2 DEF ExpireRetryKey, IndexedInv, Vouched, Stored, data, runs, history
<1>3. ASSUME NEW q \in Requests, NEW e \in Docs, AskAbout(q, e) \/ Request(q) PROVE Kept
  <2>1. RequestFrame(q) /\ (pc'[q] # pc[q] => pc[q] = "none" /\ pc'[q] = "queued")
    BY <1>3, RequestFrames, RequestMoves
  <2>2. \A s \in Runs : pc'[s] \in {"load", "keywords", "cleanRows", "wipeRows"} \/
                         pc[s] \in {"load", "keywords", "cleanRows", "wipeRows"} => pc'[s] = pc[s]
    BY <2>1 DEF RequestFrame
  <2>3. Vouched(d, n)' <=> Vouched(d, n)
    BY <2>1, <2>2 DEF RequestFrame, Vouched
  <2>4. \A s \in Runs : Stored(s, n)' <=> Stored(s, n)
    BY <2>1, <2>2 DEF RequestFrame, Stored
  <2> QED
    BY <2>1, <2>3, <2>4 DEF RequestFrame, IndexedInv
<1>4. ASSUME NEW r \in Runs, Run(r) \/ Crash(r) PROVE Kept
  <2>1. RunFrame(r)
    BY <1>4, RunFrames
  <2>2. crashed = {} /\ Run(r)
    BY <1>4, <2>1 DEF RunFrame, Crash
  <2>3. Vouched(d, n) => Vouched(d, n)' \/ segment'[d][n] = "none"
    BY <2>2, VouchedLasts
  <2>4. segment'[d][n] = "completed" => Vouched(d, n)'
    BY <2>2, <2>3, CompletedOnceStored DEF IndexedInv
  <2>5. ASSUME NEW s \in Runs, Stored(s, n), doc[s] = d PROVE segment'[d][n] = "none" \/ Vouched(d, n)'
    <3>1. segment[d][n] = "none" => segment'[d][n] = "none"
      <4> SUFFICES ASSUME segment[d][n] = "none", segment'[d][n] # "none" PROVE FALSE
        OBVIOUS
      <4>1. PICK c \in Chunks : n = <<r, c>> /\ doc[r] = d /\ pc[r] = "add" /\ n \notin nodes[r]
        BY <2>2, SegmentsAppear
      <4>2. WillAdd(r, c, d)
        BY <4>1 DEF WillAdd
      <4>3. n \notin nodes[s]
        BY <2>5, <4>1, <4>2 DEF Fresh
      <4> QED
        BY <2>5, <4>3 DEF Held, HeldBy, Stored
    <3> QED
      BY <2>2, <2>3, <2>5, <3>1 DEF IndexedInv
  <2>6. ASSUME NEW s \in Runs, Stored(s, n)', doc'[s] = d
        PROVE  segment'[d][n] = "none" \/ Vouched(d, n)'
    <3>1. CASE s # r
      BY <2>1, <2>5, <2>6, <3>1 DEF RunFrame, Stored
    <3>2. CASE s = r
      BY <2>2, <2>5, <2>6, <3>2, StoredAppears DEF Vouched
    <3> QED
      BY <3>1, <3>2
  <2> QED
    BY <2>4, <2>6
<1> QED
  BY <1>1, <1>2, <1>3, <1>4, Steps

(***************************************************************************)
(* Whatever runs beside what, on however many documents: a completed       *)
(* segment is in the index, or about to be deleted by the run that took it *)
(* out of the index.                                                       *)
(***************************************************************************)
THEOREM CompletedIsIndexed == Safety => []CompletedSegmentIsIndexed
<1> DEFINE Inv == Typed /\ Shape /\ Held /\ Fresh /\ IndexedInv
<1>1. Init => Inv
  BY InitTyped, InitShape, InitHeld, InitFresh, InitIndexed
<1>2. Inv /\ [Next]_vars => Inv'
  BY NextTyped, NextShape, NextHeld, NextFresh, NextIndexed
<1>3. Inv => CompletedSegmentIsIndexed
  BY DEF IndexedInv, Vouched, CompletedSegmentIsIndexed
<1> QED
  BY <1>1, <1>2, <1>3, PTL DEF Safety

-----------------------------------------------------------------------------
(* The rows and the index of a document that one actor works on *)

(***************************************************************************)
(* A document has been cleaned when a request has sent the task.           *)
(***************************************************************************)
LEMMA CleanedBy ==
  ASSUME Typed, Shape, NEW d \in Docs
  PROVE  Cleaned(d) <=> \E q \in Requests : kind[q] = "clean" /\ target[q] = d
<1>1. ASSUME NEW r \in Runs, kind[r] = "clean", doc[r] = d \/ d \in todo[r]
      PROVE  r \in Requests /\ target[r] = d
  <2>1. r \in Requests
    BY <1>1, RunsAndDocs DEF Shape, UploadShape
  <2>2. RequestShape(r) /\ d # NoDoc
    BY <2>1, RunsAndDocs DEF Shape
  <2>3. CASE pc[r] = "queued"
    BY <1>1, <2>1, <2>2, <2>3 DEF RequestShape
  <2>4. CASE pc[r] # "queued"
    BY <1>1, <2>1, <2>2, <2>4 DEF RequestShape
  <2> QED
    BY <2>1, <2>3, <2>4
<1>2. ASSUME NEW q \in Requests, kind[q] = "clean", target[q] = d
      PROVE  q \in Runs /\ (doc[q] = d \/ d \in todo[q])
  BY <1>2, RunsAndDocs DEF Shape, RequestShape, StatesOf
<1> QED
  BY <1>1, <1>2 DEF Cleaned

LEMMA CleanedLasts ==
  ASSUME Typed, Shape, [Next]_vars, NEW d \in Docs, Cleaned(d)
  PROVE  Cleaned(d)'
<1>1. PICK q \in Requests : kind[q] = "clean" /\ target[q] = d
  BY CleanedBy
<1>2. kind'[q] = "clean" /\ target'[q] = d
  <2>1. CASE UNCHANGED vars
    BY <1>1, <2>1 DEF vars, requests, runs
  <2>2. ASSUME NEW e \in Docs, ExpireRetryKey(e) PROVE kind'[q] = "clean" /\ target'[q] = d
    BY <1>1, <2>2 DEF ExpireRetryKey, requests, runs
  <2>3. ASSUME NEW p \in Requests, NEW e \in Docs, AskAbout(p, e) \/ Request(p)
        PROVE  kind'[q] = "clean" /\ target'[q] = d
    <3>1. RequestFrame(p) /\ RequestShape(q) /\ q \in Runs
      BY <2>3, RequestFrames, RunsAndDocs DEF Shape
    <3>2. CASE p # q
      BY <1>1, <3>1, <3>2 DEF RequestFrame
    <3>3. CASE p = q
      BY <1>1, <2>3, <3>1, <3>3 DEF RequestShape, BeforeTask, AskAbout, AskPause, AskRecover,
         AskRetry, AskDelete, Ask, Request, CommitPause, SetPausedKey, CommitRecover,
         DeletePausedKey, SendRecover, CommitRetry, SetRetryKey, SendRetry, RemoveRow, Commit,
         GoOn, runs
    <3> QED
      BY <3>2, <3>3
  <2>4. ASSUME NEW r \in Runs, Run(r) \/ Crash(r) PROVE kind'[q] = "clean" /\ target'[q] = d
    BY <1>1, <2>4, RunFrames DEF RunFrame
  <2> QED
    BY <2>1, <2>2, <2>3, <2>4, Steps
<1> QED
  <2>1. q \in Runs /\ RequestShape(q)' /\ pc'[q] \in StatesOf(kind'[q])
    BY NextTyped, NextShape, RunsAndDocs DEF Shape
  <2>2. doc'[q] = d \/ d \in todo'[q]
    BY <1>2, <2>1 DEF RequestShape, StatesOf
  <2> QED
    BY <1>2, <2>1, <2>2 DEF Cleaned

LEMMA RetryCleansActs ==
  ASSUME Typed, Shape, NEW r \in Runs, NEW d \in Docs, RetryCleans(r, d)
  PROVE  Acts(r, d)
BY RunsAndDocs DEF Typed, TypeOK, Shape, RequestShape, RetryCleans, Acts, AtWork, Strong

(***************************************************************************)
(* The run that works on a document, alone, and finds it in order.         *)
(***************************************************************************)
Sole(r, d) ==
  /\ AtWork(r, d)
  /\ \A s \in Runs : Acts(s, d) => s = r
  /\ status[d] = "gone" => kind[r] = "clean"

Ordered(r, d) ==
  /\ AtRest(d) /\ Untouched(d) /\ ToBeCleaned(d)
  /\ doc[r] = d => Stage(r, d)

OrderedNext(r, d) == AtRest(d)' /\ (doc'[r] = d => Stage(r, d)')

\* A document keeps all its chunks in the database while its rows stay.
LEMMA FullKept ==
  ASSUME NEW d, SegmentsOf(d)' = SegmentsOf(d)
  PROVE  Full(d) => Full(d)'
BY DEF Full

(***************************************************************************)
(* Only a retry that has not cleaned yet may leave segments behind.        *)
(***************************************************************************)
LEMMA EmptyUnlessRetried ==
  ASSUME Typed, Shape, NEW r \in Runs, NEW d \in Docs, Sole(r, d), AtRest(d),
         kind[r] # "retry" \/ pc[r] \notin {"queued", "cleanIndex", "cleanRows", "retryError"},
         status[d] \in {"waiting", "parsing"}
  PROVE  Empty(d)
<1>1. ASSUME NEW s \in Runs, RetryCleans(s, d) PROVE s = r
  BY <1>1, RetryCleansActs DEF Sole
<1>2. ~RetryCleans(r, d)
  BY RunsAndDocs DEF Sole, AtWork, RetryCleans, Shape, RequestShape, BeforeTask, StatesOf
<1> QED
  BY <1>1, <1>2 DEF AtRest

LEMMA StartsInOrder ==
  ASSUME Typed, Shape, [Next]_vars, NEW r \in Runs, Run(r), HeldBy(r), NEW d \in Docs, Sole(r, d),
         Ordered(r, d), pc[r] = "queued"
  PROVE  OrderedNext(r, d)
<1>1. /\ pc \in [Runs -> RunStates] /\ nodes \in [Runs -> SUBSET Nodes]
      /\ doc \in [Runs -> Docs \union {NoDoc}] /\ todo \in [Runs -> SUBSET Docs]
      /\ status \in [Docs -> Statuses]
  BY DEF Typed, TypeOK
<1>2. /\ doc[r] # d /\ d \in todo[r] /\ nodes[r] = {}
      /\ r = Upload => kind[r] = "index" /\ doc[r] \notin Docs
      /\ r \in Requests => todo[r] = {d} /\ kind[r] # "index" /\ target[r] = d
  <2>1. doc[r] = NoDoc /\ (r = Upload => kind[r] = "index")
    BY RunsAndDocs DEF Shape, RequestShape, UploadShape
  <2>2. d \in todo[r] /\ doc[r] # d /\ nodes[r] = {} /\ NoDoc \notin Docs
    BY <2>1, RunsAndDocs DEF Sole, AtWork, HeldBy, EmptyHanded
  <2>3. ASSUME r \in Requests PROVE todo[r] = {d} /\ kind[r] # "index" /\ target[r] = d
    <3>1. RequestShape(r)
      BY <2>3 DEF Shape
    <3>2. todo[r] = {target[r]} /\ kind[r] # "index"
      BY <3>1 DEF RequestShape
    <3> QED
      BY <2>2, <3>2
  <2> QED
    BY <2>1, <2>2, <2>3
<1>3. /\ SegmentsOf(d)' = SegmentsOf(d) /\ index'[d] = index[d]
      /\ UNCHANGED kind /\ UNCHANGED target
  BY <1>2, RunFrames DEF RunFrame, SegmentsOf
<1>4. Cleaned(d) => Cleaned(d)'
  BY CleanedLasts
<1>5. kind[r] # "retry" /\ status[d] \in {"waiting", "parsing"} => Empty(d)
  BY EmptyUnlessRetried DEF Ordered
<1>6. CASE StartIndex(r)
  <2>1. r = Upload /\ doc'[r] # d /\ status'[d] # "splitting" /\ status'[d] # "indexing"
        /\ (status'[d] \in {"waiting", "parsing"} => Empty(d))
    BY <1>1, <1>2, <1>6, RunsAndDocs DEF StartIndex, Ordered, Untouched, Move, Advance, Write, Exists, runs
  <2> QED
    BY <1>3, <2>1 DEF OrderedNext, Ordered, AtRest, Empty
<1>7. CASE StartRecover(r)
  <2>1. /\ status'[d] = status[d] /\ nodes'[r] = nodes[r] /\ pc'[r] = Resume(d)
        /\ kind[r] = "recover" /\ r \in Requests
    BY <1>1, <1>2, <1>7, RunsAndDocs DEF StartRecover, Move, rows
  <2>2. status[d] # "gone"
    BY <2>1 DEF Sole
  <2>3. AtRest(d)'
    BY <1>3, <1>4, <1>5, <2>1 DEF Ordered, AtRest, Empty, Full
  <2>4. Stage(r, d)'
    BY <1>3, <1>5, <2>1, <2>2 DEF Ordered, AtRest, Stage, Empty, Resume, OnDocument
  <2> QED
    BY <2>3, <2>4 DEF OrderedNext
<1>8. CASE StartRetry(r)
  <2>0. kind[r] = "retry" /\ r \in Requests /\ status[d] # "gone" /\ status[d] = "waiting"
    BY <1>2, <1>8, RunsAndDocs DEF StartRetry, Sole, Ordered, ToBeCleaned, RetryAhead
  <2>1. CASE pc'[r] = "unkey"
    <3>1. status'[d] = "error"
      BY <1>1, <1>2, <1>8, <2>0, <2>1 DEF StartRetry, Move, Write, Exists
    <3> QED
      BY <1>3, <2>1, <3>1 DEF OrderedNext, Ordered, AtRest, Stage, OnDocument
  <2>2. CASE pc'[r] # "unkey"
    <3>1. pc'[r] = "cleanIndex" /\ nodes'[r] = SegmentsOf(d) /\ status'[d] = status[d]
      BY <1>1, <1>2, <1>8, <2>0, <2>2 DEF StartRetry, Move, Exists, rows
    <3>2. RetryCleans(r, d)'
      BY <1>2, <1>3, <2>0, <3>1 DEF RetryCleans
    <3> QED
      BY <1>3, <2>0, <3>1, <3>2 DEF OrderedNext, Ordered, AtRest, Stage, OnDocument
  <2> QED
    BY <2>1, <2>2
<1>9. CASE StartClean(r)
  <2>1. /\ status'[d] = status[d] /\ nodes'[r] = SegmentsOf(d) /\ pc'[r] = "wipeIndex"
        /\ kind[r] = "clean"
    BY <1>1, <1>2, <1>9, RunsAndDocs DEF StartClean, Move, rows
  <2> QED
    BY <1>3, <1>4, <1>5, <2>1 DEF OrderedNext, Ordered, AtRest, Stage, OnDocument, Empty, Full
<1> QED
  BY <1>6, <1>7, <1>8, <1>9 DEF Run, TakeDocument, ClearSegments, Reload, CleanIndex,
     CleanIndexFails, CleanRows, SetParsing, UpdateStatus, Check, Update, AddSegment, MarkSegments,
     Chunk, ChunkChecks, ChunkIsStored, ChunkFails, ChunkCompletes, Step, Join, KeywordsAreStored,
     KeywordsComplete, KeywordThreadRaises, Loaded, RunFails, HandleError, IsPaused, RetryError,
     DeleteRetryKey, WipeIndex, WipeRows, Move

(***************************************************************************)
(* A run that has another document leaves those it has still to take.      *)
(***************************************************************************)
LEMMA TakesInOrder ==
  ASSUME Typed, Shape, [Next]_vars, NEW r \in Runs, Run(r) \/ Crash(r), NEW d \in Docs, Sole(r, d),
         Ordered(r, d), pc[r] # "queued", doc[r] # d \/ TakeDocument(r), HeldBy(r)
  PROVE  OrderedNext(r, d)
<1>1. /\ r = Upload => doc[r] \notin todo[r] /\ (pc[r] = "next" => nodes[r] = {})
      /\ r \in Requests => todo[r] = {} /\ (pc[r] # "none" => doc[r] = target[r])
      /\ r \in Requests => kind[r] # "index"
      /\ pc[r] # "none" /\ pc[r] # "done"
  BY RunFrames DEF Shape, RequestShape, UploadShape, HeldBy, EmptyHanded, RunFrame
<1>2. /\ pc[r] \in StatesOf(kind[r]) /\ pc \in [Runs -> RunStates] /\ doc \in [Runs -> Docs \union {NoDoc}]
      /\ todo \in [Runs -> SUBSET Docs] /\ kind[r] \in Kinds
  BY DEF Shape, Typed, TypeOK
<1>3. r = Upload
  BY <1>1, <1>2, RunsAndDocs DEF Sole, AtWork, TakeDocument, Move, StatesOf, Kinds, OnDocument
<1>4. SegmentsOf(d)' = SegmentsOf(d) /\ index'[d] = index[d] /\ status'[d] = status[d]
  BY RunFrames DEF RunFrame, SegmentsOf, TakeDocument, rows, data
<1>5. Cleaned(d) => Cleaned(d)'
  BY CleanedLasts
<1>6. kind[r] # "retry"
  BY <1>3 DEF Shape, UploadShape
<1>7. AtRest(d)'
  BY <1>4, <1>5, <1>6, EmptyUnlessRetried DEF Ordered, AtRest, Empty, Full
<1>8. ASSUME doc'[r] = d PROVE Stage(r, d)'
  <2>1. CASE doc[r] = d
    BY <1>1, <1>2, <1>3, <1>8, <2>1 DEF TakeDocument, Move, Stage, OnDocument
  <2>2. CASE doc[r] # d
    <3>1. TakeDocument(r)
      BY <1>2, <1>3, <1>6, <1>8, <2>2, RunsAndDocs
      DEF Run, Crash, StartIndex, StartRecover, StartRetry, StartClean, ClearSegments, Reload,
       CleanIndex, CleanIndexFails, CleanRows, SetParsing, UpdateStatus, Check, Update, AddSegment,
       MarkSegments, Chunk, ChunkChecks, ChunkIsStored, ChunkFails, ChunkCompletes, Step, Join,
       KeywordsAreStored, KeywordsComplete, KeywordThreadRaises, Loaded, RunFails, HandleError,
       IsPaused, RetryError, DeleteRetryKey, WipeIndex, WipeRows, Move, runs
    <3>2. d \in todo[r] /\ pc[r] = "next" /\ pc'[r] \in {"next", "extract"} /\ nodes'[r] = {}
      BY <1>1, <1>2, <1>3, <1>8, <2>2, <3>1 DEF TakeDocument, Move
    <3>3. Empty(d) /\ status[d] \in {"waiting", "parsing"}
      BY <1>3, <3>2 DEF Ordered, Untouched
    <3> QED
      BY <1>4, <3>2, <3>3 DEF Stage, Empty, OnDocument
  <2> QED
    BY <2>1, <2>2
<1> QED
  BY <1>7, <1>8 DEF OrderedNext

(***************************************************************************)
(* A run leaves the document it works on in order, at each of its steps.   *)
(***************************************************************************)
LEMMA WorksInOrder ==
  ASSUME Typed, Shape, [Next]_vars, NEW r \in Runs, Run(r) \/ Crash(r), HeldBy(r), NEW d \in Docs,
         Sole(r, d), Ordered(r, d), doc[r] = d, pc[r] \notin {"queued", "next"}, "retry" \notin crashed'
  PROVE  OrderedNext(r, d)
<1> DEFINE Uncleaned == kind[r] = "retry" /\ pc[r] \in {"cleanIndex", "cleanRows", "retryError"}
<1>1. /\ pc \in [Runs -> RunStates] /\ nodes \in [Runs -> SUBSET Nodes]
      /\ segment \in [Docs -> [Nodes -> SegmentStates]] /\ index \in [Docs -> SUBSET Nodes]
      /\ doc \in [Runs -> Docs \union {NoDoc}] /\ status \in [Docs -> Statuses]
      /\ thread \in [Runs -> [Nodes -> ThreadStates]]
  BY DEF Typed, TypeOK
<1>2. /\ Stage(r, d) /\ AtRest(d) /\ pc[r] \in StatesOf(kind[r]) /\ kind[r] \in Kinds
      /\ pc[r] \notin {"none", "done"}
  BY RunFrames DEF Ordered, Shape, Typed, TypeOK, RunFrame
<1>3. /\ status[d] = "gone" => kind[r] = "clean"
      /\ kind[r] \in {"retry", "clean"} => r \in Requests /\ target[r] = d
      /\ kind[r] = "clean" => Cleaned(d) /\ Cleaned(d)'
      /\ Cleaned(d) => Cleaned(d)'
  <2>1. kind[r] \in {"retry", "clean"} => r \in Requests /\ target[r] = d
    BY <1>2, RunsAndDocs DEF Shape, RequestShape, UploadShape
  <2>2. Cleaned(d) => Cleaned(d)'
    BY CleanedLasts
  <2> QED
    BY <2>1, <2>2, CleanedBy DEF Sole
<1>4. status[d] \in {"waiting", "parsing"} /\ ~Uncleaned => Empty(d)
  BY <1>2, EmptyUnlessRetried
<1>5. UNCHANGED <<kind, step, target>> /\ todo'[r] \subseteq todo[r]
      /\ (kind[r] = "retry" => UNCHANGED <<kind, target>>)
  BY RunFrames DEF RunFrame
<1>6. kind[r] = "retry" /\ pc'[r] \in {"cleanIndex", "cleanRows", "retryError"} => RetryCleans(r, d)'
  BY <1>3, <1>5 DEF RetryCleans
<1>7. ASSUME SegmentsOf(d)' = SegmentsOf(d), index'[d] = index[d], status'[d] = status[d],
             ~Uncleaned \/ pc'[r] \in {"cleanIndex", "cleanRows", "retryError"}
      PROVE  AtRest(d)'
  BY <1>2, <1>3, <1>4, <1>6, <1>7 DEF AtRest, Empty, Full
<1>8. doc'[r] = d
  BY <1>1, <1>2 DEF Run, Crash, StartIndex, StartRecover, StartRetry, StartClean, TakeDocument,
     ClearSegments, Reload, CleanIndex, CleanIndexFails, CleanRows, SetParsing, UpdateStatus, Check,
     Update, AddSegment, MarkSegments, Chunk, ChunkChecks, ChunkIsStored, ChunkFails,
     ChunkCompletes, Step, Join, KeywordsAreStored, KeywordsComplete, KeywordThreadRaises, Loaded,
     RunFails, HandleError, IsPaused, RetryError, DeleteRetryKey, WipeIndex, WipeRows, Move, runs
<1>9. ASSUME UNCHANGED data PROVE SegmentsOf(d)' = SegmentsOf(d) /\ index'[d] = index[d]
  BY <1>9 DEF data, SegmentsOf
<1>10. ASSUME UNCHANGED rows PROVE status'[d] = status[d]
  BY <1>10 DEF rows
<1> USE <1>1, <1>2, <1>8 DEF OrderedNext, Move
<1>11. CASE ClearSegments(r)
  <2>1. SegmentsOf(d)' = {} /\ index'[d] = index[d] /\ status'[d] = status[d]
    BY <1>10, <1>11 DEF ClearSegments, WithoutSegments, ToClear, SegmentsOf
  <2>2. pc[r] = "clear" /\ pc'[r] = "extract"
    BY <1>11 DEF ClearSegments
  <2> QED
    BY <2>1, <2>2 DEF AtRest, Stage, Empty, OnDocument
<1>12. CASE Reload(r)
  <2>1. /\ SegmentsOf(d)' = SegmentsOf(d) /\ index'[d] = index[d] /\ status'[d] = status[d]
        /\ pc[r] = "reload" /\ pc'[r] = "load" /\ nodes'[r] \subseteq SegmentsOf(d)
    BY <1>9, <1>10, <1>12 DEF Reload, Load, Unindexed
  <2> QED
    BY <1>7, <2>1 DEF Stage, OnDocument
<1>13. CASE CleanIndex(r)
  <2>1. /\ SegmentsOf(d)' = SegmentsOf(d) /\ index'[d] = index[d] \ nodes[r] /\ status'[d] = status[d]
        /\ pc[r] = "cleanIndex" /\ pc'[r] = "cleanRows" /\ nodes'[r] = nodes[r]
    BY <1>10, <1>13 DEF CleanIndex, InIndexToClean, SegmentsOf
  <2>2. index'[d] = {} /\ kind[r] = "retry"
    BY <2>1 DEF AtRest, Stage, StatesOf, OnDocument, Kinds
  <2> QED
    BY <1>3, <1>6, <2>1, <2>2 DEF AtRest, Stage, OnDocument, Full
<1>14. CASE CleanIndexFails(r)
  <2>1. /\ SegmentsOf(d)' = SegmentsOf(d) /\ index'[d] = index[d] /\ status'[d] = status[d]
        /\ pc[r] = "cleanIndex" /\ pc'[r] = "retryError"
    BY <1>9, <1>10, <1>14 DEF CleanIndexFails
  <2> QED
    BY <1>7, <2>1 DEF Stage, OnDocument
<1>15. CASE CleanRows(r)
  <2>1. /\ SegmentsOf(d)' = SegmentsOf(d) \ nodes[r] /\ index'[d] = index[d]
        /\ status'[d] = status[d] /\ pc[r] = "cleanRows" /\ pc'[r] = "setParsing"
    BY <1>10, <1>15 DEF CleanRows, WithoutSegments, SegmentsOf
  <2>2. status[d] = "waiting"
    BY <1>3, <2>1 DEF Ordered, ToBeCleaned, RetryAhead, StatesOf, OnDocument, Kinds
  <2> QED
    BY <2>1, <2>2 DEF AtRest, Stage, Empty, OnDocument
<1>16. CASE SetParsing(r)
  <2>1. /\ SegmentsOf(d)' = SegmentsOf(d) /\ index'[d] = index[d] /\ pc[r] = "setParsing"
        /\ status'[d] = "parsing" /\ pc'[r] = "extract"
    BY <1>9, <1>16 DEF SetParsing, Advance, Write, Exists, Stage
  <2> QED
    BY <2>1 DEF AtRest, Stage, Empty, OnDocument
<1>17. ASSUME NEW from \in {"extract", "add", "checkCompleted"}, NEW next \in RunStates,
              Check(r, from, next), from = "extract" => next = "setSplitting",
              from = "add" => next = "setIndexing" /\ Missing(r) = {},
              from = "checkCompleted" => next = "setCompleted"
       PROVE  OrderedNext(r, d)
  <2>1. /\ SegmentsOf(d)' = SegmentsOf(d) /\ index'[d] = index[d] /\ status'[d] = status[d]
        /\ pc[r] = from /\ pc'[r] \in {"paused", "error", next} /\ nodes'[r] = nodes[r]
    BY <1>9, <1>10, <1>17 DEF Check
  <2>2. from = "add" => nodes[r] = {r} \X Chunks
    BY <1>17, <2>1 DEF Stage, Missing
  <2>3. AtRest(d)'
    BY <1>7, <2>1
  <2>4. Stage(r, d)'
    BY <1>17, <2>1, <2>2 DEF Stage, Empty, OnDocument
  <2> QED
    BY <2>3, <2>4
<1>18. CASE Update(r, "setSplitting", "add", StatusOnceExtracted)
  <2>1. /\ SegmentsOf(d)' = SegmentsOf(d) /\ index'[d] = index[d] /\ pc[r] = "setSplitting"
        /\ status'[d] = "splitting" /\ pc'[r] = "add" /\ nodes'[r] = {}
    BY <1>9, <1>18 DEF Update, Advance, Write, Exists, Stage, OnDocument, StatusOnceExtracted,
       HeldBy, EmptyHanded
  <2> QED
    BY <2>1 DEF AtRest, Stage, Empty, OnDocument
<1>19. CASE Update(r, "setIndexing", "mark", "indexing")
  <2>1. /\ SegmentsOf(d)' = SegmentsOf(d) /\ index'[d] = index[d] /\ pc[r] = "setIndexing"
        /\ status'[d] = "indexing" /\ pc'[r] = "mark" /\ nodes'[r] = nodes[r]
    BY <1>9, <1>19 DEF Update, Advance, Write, Exists, Stage, OnDocument
  <2>2. SegmentsOf(d) = {r} \X Chunks /\ nodes[r] = {r} \X Chunks
    BY <2>1 DEF Stage
  <2>3. Full(d)'
    BY <2>1, <2>2 DEF Full
  <2> QED
    BY <2>1, <2>2, <2>3 DEF AtRest, Stage, OnDocument
<1>20. CASE Update(r, "setCompleted", AfterDocument(r), "completed")
  <2>1. /\ SegmentsOf(d)' = SegmentsOf(d) /\ index'[d] = index[d] /\ pc[r] = "setCompleted"
        /\ status'[d] = "completed" /\ pc'[r] \in {"next", "done", "unkey"}
    BY <1>9, <1>20 DEF Update, Advance, Write, Exists, Stage, OnDocument, AfterDocument
  <2> QED
    BY <2>1 DEF AtRest, Stage, OnDocument
<1>21. CASE UpdateStatus(r)
  BY <1>17, <1>18, <1>19, <1>20, <1>21 DEF UpdateStatus, RunStates
<1>22. CASE AddSegment(r)
  <2>1. PICK c \in Missing(r) :
          /\ segment' = [segment EXCEPT ![doc[r]][<<r, c>>] = "waiting"]
          /\ nodes' = [nodes EXCEPT ![r] = @ \union {<<r, c>>}]
    BY <1>22 DEF AddSegment
  <2>2. <<r, c>> \in Nodes /\ c \in Chunks
    BY <2>1 DEF Missing, Nodes
  <2>3. /\ SegmentsOf(d)' = SegmentsOf(d) \union {<<r, c>>}
        /\ nodes'[r] = nodes[r] \union {<<r, c>>}
    BY <2>1, <2>2 DEF SegmentsOf
  <2>4. /\ pc[r] = "add" /\ pc'[r] = "add" /\ status'[d] = status[d] /\ index'[d] = index[d]
    BY <1>10, <1>22 DEF AddSegment
  <2>5. /\ SegmentsOf(d)' = nodes'[r] /\ nodes'[r] \subseteq {r} \X Chunks
    BY <2>2, <2>3, <2>4 DEF Stage
  <2>6. \A m, n \in SegmentsOf(d)' : m[2] = n[2] => m = n
    BY <2>5
  <2> QED
    BY <2>4, <2>5, <2>6 DEF AtRest, Stage, OnDocument
<1>23. CASE MarkSegments(r)
  <2>1. /\ SegmentsOf(d)' = SegmentsOf(d) /\ index'[d] = index[d] /\ status'[d] = status[d]
        /\ pc[r] = "mark" /\ pc'[r] = "load" /\ nodes'[r] = {r} \X Chunks
    BY <1>10, <1>23 DEF MarkSegments, Load, SegmentsOf
  <2> QED
    BY <1>7, <2>1 DEF Stage, OnDocument
<1>24. CASE Chunk(r)
  <2>1. PICK n \in Nodes :
          ChunkChecks(r, n) \/ ChunkIsStored(r, n) \/ ChunkFails(r, n) \/ ChunkCompletes(r, n)
    BY <1>24 DEF Chunk
  <2>2. /\ status'[d] = status[d] /\ pc[r] = "load" /\ pc'[r] = "load" /\ nodes'[r] = nodes[r]
    BY <1>10, <2>1 DEF ChunkChecks, ChunkIsStored, ChunkFails, ChunkCompletes, Step
  <2>3. SegmentsOf(d)' = SegmentsOf(d)
    BY <2>1 DEF ChunkChecks, ChunkIsStored, ChunkFails, ChunkCompletes, ToComplete, SegmentsOf, data
  <2>4. ASSUME NEW m \in index'[d], m \notin index[d] PROVE m \in SegmentsOf(d)
    <3>1. m = n /\ thread[r][n] = "checked"
      BY <2>1, <2>4 DEF ChunkChecks, ChunkIsStored, ChunkFails, ChunkCompletes, Step, data
    <3> QED
      BY <2>2, <3>1 DEF HeldBy, Stage
  <2>5. AtRest(d)'
    <3>1. status[d] = "indexing"
      BY <2>2 DEF Stage
    <3>2. index'[d] \subseteq SegmentsOf(d)
      BY <2>4 DEF AtRest
    <3>3. Full(d) => Full(d)'
      BY <2>3, FullKept
    <3>4. \A m1, m2 \in SegmentsOf(d)' : m1[2] = m2[2] => m1 = m2
      BY <1>3, <2>3 DEF AtRest
    <3>5. ~Cleaned(d)' => Full(d)'
      BY <1>3, <3>1, <3>3 DEF AtRest
    <3>6. status'[d] = "indexing" /\ index'[d] \subseteq SegmentsOf(d)'
      BY <2>2, <2>3, <3>1, <3>2
    <3> QED
      BY <3>4, <3>5, <3>6 DEF AtRest
  <2> QED
    BY <2>2, <2>3, <2>5 DEF Stage, OnDocument
<1>25. ASSUME UNCHANGED data, UNCHANGED rows, pc[r] \in {"load", "keywords"},
              pc'[r] \in {"checkCompleted", "paused", "error"}
       PROVE  OrderedNext(r, d)
  <2>1. SegmentsOf(d)' = SegmentsOf(d) /\ index'[d] = index[d] /\ status'[d] = status[d]
    BY <1>9, <1>10, <1>25
  <2> QED
    BY <1>7, <1>25, <2>1 DEF Stage, OnDocument
<1>26. CASE Join(r)
  BY <1>25, <1>26 DEF Join, Loaded
<1>27. CASE KeywordsAreStored(r)
  <2>1. /\ SegmentsOf(d)' = SegmentsOf(d) /\ index'[d] = index[d] \union nodes[r]
        /\ status'[d] = status[d] /\ pc[r] = "load" /\ pc'[r] = "keywords"
    BY <1>10, <1>27 DEF KeywordsAreStored, SegmentsOf
  <2>2. AtRest(d)'
    <3>1. status[d] = "indexing" /\ nodes[r] \subseteq SegmentsOf(d)
      BY <2>1 DEF Stage
    <3>2. Full(d) => Full(d)'
      BY <2>1, FullKept
    <3> QED
      BY <1>3, <2>1, <3>1, <3>2 DEF AtRest
  <2> QED
    BY <2>1, <2>2 DEF Stage, OnDocument
<1>28. CASE KeywordsComplete(r)
  <2>1. /\ index'[d] = index[d] /\ status'[d] = status[d]
        /\ pc[r] = "keywords" /\ pc'[r] = "checkCompleted"
    BY <1>10, <1>28 DEF KeywordsComplete, Loaded
  <2>2. SegmentsOf(d)' = SegmentsOf(d)
    BY <1>28 DEF KeywordsComplete, SegmentsOf
  <2> QED
    BY <1>7, <2>1, <2>2 DEF Stage, OnDocument
<1>29. CASE KeywordThreadRaises(r)
  BY <1>25, <1>29 DEF KeywordThreadRaises, Loaded
<1>30. CASE RunFails(r)
  <2>1. /\ SegmentsOf(d)' = SegmentsOf(d) /\ index'[d] = index[d] /\ status'[d] = status[d]
        /\ pc[r] \in {"extract", "add", "reload"} /\ pc'[r] = "error"
    BY <1>9, <1>10, <1>30 DEF RunFails
  <2> QED
    BY <1>7, <2>1 DEF Stage, OnDocument
<1>31. CASE HandleError(r)
  <2>1. /\ SegmentsOf(d)' = SegmentsOf(d) /\ index'[d] = index[d] /\ pc[r] = "error"
        /\ status'[d] = "error" /\ pc'[r] \in {"next", "done", "unkey"}
    BY <1>9, <1>31 DEF HandleError, Write, Exists, Stage, OnDocument, AfterDocument
  <2> QED
    BY <2>1 DEF AtRest, Stage, OnDocument
<1>32. CASE IsPaused(r)
  <2>1. /\ SegmentsOf(d)' = SegmentsOf(d) /\ index'[d] = index[d] /\ status'[d] = status[d]
        /\ pc[r] = "paused" /\ pc'[r] \in {"retryError", "done"}
    BY <1>9, <1>10, <1>32 DEF IsPaused
  <2> QED
    BY <1>7, <2>1 DEF Stage, OnDocument
<1>33. CASE RetryError(r)
  <2>1. /\ SegmentsOf(d)' = SegmentsOf(d) /\ index'[d] = index[d]
        /\ status'[d] \in {"error", "gone"} /\ pc'[r] \in {"unkey", "done"}
    BY <1>9, <1>33 DEF RetryError, Write, Exists
  <2> QED
    BY <2>1 DEF AtRest, Stage, OnDocument
<1>34. CASE DeleteRetryKey(r)
  <2>1. /\ SegmentsOf(d)' = SegmentsOf(d) /\ index'[d] = index[d] /\ status'[d] = status[d]
        /\ pc[r] = "unkey" /\ pc'[r] = "done"
    BY <1>9, <1>10, <1>34 DEF DeleteRetryKey
  <2> QED
    BY <1>7, <2>1 DEF Stage, OnDocument
<1>35. CASE WipeIndex(r)
  <2>1. /\ SegmentsOf(d)' = SegmentsOf(d) /\ index'[d] = index[d] \ nodes[r]
        /\ status'[d] = status[d] /\ pc[r] = "wipeIndex" /\ pc'[r] = "wipeRows"
    BY <1>10, <1>35 DEF WipeIndex, SegmentsOf
  <2>2. index'[d] = {} /\ kind[r] = "clean"
    BY <2>1 DEF AtRest, Stage, StatesOf, OnDocument, Kinds
  <2> QED
    BY <1>3, <1>4, <2>1, <2>2 DEF AtRest, Stage, Empty, OnDocument
<1>36. CASE WipeRows(r)
  <2>1. /\ SegmentsOf(d)' = {} /\ index'[d] = index[d]
        /\ status'[d] = status[d] /\ pc[r] = "wipeRows" /\ pc'[r] = "done"
    BY <1>10, <1>36 DEF WipeRows, WithoutSegments, ToWipe, SegmentsOf
  <2>2. index'[d] = {} /\ kind[r] = "clean"
    BY <2>1 DEF AtRest, Stage, StatesOf, OnDocument, Kinds
  <2> QED
    BY <1>3, <2>1, <2>2 DEF AtRest, Stage, Empty, OnDocument
<1>37. CASE Crash(r)
  <2>1. /\ SegmentsOf(d)' = SegmentsOf(d) /\ index'[d] = index[d] /\ status'[d] = status[d]
        /\ pc'[r] = "done" /\ kind[r] # "retry"
    BY <1>9, <1>10, <1>37 DEF Crash
  <2> QED
    BY <1>7, <2>1 DEF Stage, OnDocument
<1>38. ~StartIndex(r) /\ ~TakeDocument(r) /\ ~StartRecover(r) /\ ~StartRetry(r) /\ ~StartClean(r)
  BY DEF StartIndex, TakeDocument, StartRecover, StartRetry, StartClean
<1> QED
  BY <1>11, <1>12, <1>13, <1>14, <1>15, <1>16, <1>21, <1>22, <1>23, <1>24, <1>26, <1>27, <1>28,
     <1>29, <1>30, <1>31, <1>32, <1>33, <1>34, <1>35, <1>36, <1>37, <1>38
     DEF Run

(***************************************************************************)
(* What a step does to the status of a document by a request: a retry sets *)
(* it to waiting, and a deletion removes the row.                          *)
(***************************************************************************)
LEMMA RequestStatus ==
  ASSUME Typed, Shape, NEW q \in Requests, NEW e \in Docs, AskAbout(q, e) \/ Request(q),
         NEW d \in Docs
  PROVE  \/ status'[d] = status[d]
         \/ target[q] = d /\ step[q] = "retry" /\ status'[d] = "waiting"
              /\ step'[q] = "retryKey" /\ target'[q] = d
         \/ target[q] = d /\ step[q] = "delete" /\ status'[d] = "gone" /\ kind[q] = "clean"
<1>1. RequestShape(q)
  BY DEF Shape
<1> USE <1>1 DEF RequestShape, Typed, TypeOK, GoOn, rows
<1>2. CASE CommitRetry(q)
  BY <1>2 DEF CommitRetry, Commit
<1>3. CASE RemoveRow(q)
  BY <1>3 DEF RemoveRow
<1>4. CASE AskAbout(q, e)
  BY <1>4 DEF AskAbout, AskPause, AskRecover, AskRetry, AskDelete
<1> QED
  BY <1>2, <1>3, <1>4 DEF Request, CommitPause, SetPausedKey, CommitRecover, DeletePausedKey,
     SendRecover, SetRetryKey, SendRetry

(***************************************************************************)
(* A retry stays ahead of its task until the task has it.                  *)
(***************************************************************************)
LEMMA RequestRetries ==
  ASSUME Typed, Shape, NEW q \in Requests, NEW e \in Docs, AskAbout(q, e) \/ Request(q),
         NEW r \in Runs, NEW d \in Docs
  PROVE  /\ RetryCleans(r, d) => RetryCleans(r, d)'
         /\ RetryAhead(r, d)' => RetryAhead(r, d) \/ status'[d] = "waiting"
<1>1. /\ RequestFrame(q) /\ RequestShape(q) /\ pc[q] \in StatesOf(kind[q])
      /\ kind[q] \in Kinds
  BY RequestFrames, RunsAndDocs DEF Shape, Typed, TypeOK
<1>2. CASE r # q
  BY <1>1, <1>2 DEF RequestFrame, RetryCleans, RetryAhead
<1>3. CASE r = q
  <2> USE <1>1, <1>3, RunsAndDocs DEF RequestShape, BeforeTask, StatesOf, OnDocument, Kinds,
          RetryCleans, RetryAhead, Ask, GoOn, Commit, Start, requests, runs, Typed, TypeOK
  <2>1. CASE AskAbout(q, e)
    BY <2>1 DEF AskAbout, AskPause, AskRecover, AskRetry, AskDelete
  <2>2. CASE CommitPause(q) \/ SetPausedKey(q)
    BY <2>2 DEF CommitPause, SetPausedKey
  <2>3. CASE CommitRecover(q) \/ DeletePausedKey(q) \/ SendRecover(q)
    BY <2>3 DEF CommitRecover, DeletePausedKey, SendRecover
  <2>4. CASE CommitRetry(q)
    BY <2>4 DEF CommitRetry, Exists
  <2>5. CASE SetRetryKey(q) \/ SendRetry(q)
    BY <2>5 DEF SetRetryKey, SendRetry
  <2>6. CASE RemoveRow(q)
    BY <2>6 DEF RemoveRow
  <2> QED
    BY <2>1, <2>2, <2>3, <2>4, <2>5, <2>6 DEF AskAbout, Request
<1> QED
  BY <1>2, <1>3

(***************************************************************************)
(* Requests leave documents in order.                                      *)
(***************************************************************************)
LEMMA RequestInOrder ==
  ASSUME Typed, Shape, [Next]_vars, NEW q \in Requests, NEW e \in Docs, AskAbout(q, e) \/ Request(q),
         NEW d \in Docs, Alone(d), OrderlyInv(d)
  PROVE  OrderlyInv(d)'
<1> SUFFICES ASSUME ~overlapped'[d], "retry" \notin crashed' PROVE OrderlyInv(d)'
  BY DEF OrderlyInv
<1>0. pc[Upload] # "none"
  BY RunsAndDocs DEF Shape, UploadShape, StatesOf, OnDocument
<1>1. RequestFrame(q) /\ q \in Runs /\ RequestShape(q) /\ pc[q] \in StatesOf(kind[q])
  BY RequestFrames, RunsAndDocs DEF Shape
<1>2. /\ ~overlapped[d]
      /\ AtRest(d) /\ Untouched(d) /\ ToBeCleaned(d) /\ \A r \in Runs : doc[r] = d => Stage(r, d)
      /\ \A r, s \in Runs : Acts(r, d) /\ Acts(s, d) => r = s
  BY <1>1 DEF RequestFrame, OrderlyInv, Alone
<1>3. SegmentsOf(d)' = SegmentsOf(d) /\ index'[d] = index[d] /\ doc' = doc /\ nodes' = nodes
  BY <1>1 DEF RequestFrame, SegmentsOf
<1>4. /\ \A r \in Runs : doc[r] = d => pc'[r] = pc[r]
      /\ pc'[Upload] = pc[Upload] /\ todo'[Upload] = todo[Upload]
  <2>1. pc'[q] # pc[q] => doc[q] = NoDoc
    BY <1>1, RequestMoves DEF RequestShape
  <2> QED
    BY <1>1, <2>1, RunsAndDocs DEF RequestFrame
<1>5. Cleaned(d) => Cleaned(d)'
  BY CleanedLasts
<1>6. ASSUME NEW r \in Runs, RetryCleans(r, d) PROVE RetryCleans(r, d)'
  BY <1>6, RequestRetries
<1>7. ASSUME NEW r \in Runs, RetryAhead(r, d)' PROVE RetryAhead(r, d) \/ status'[d] = "waiting"
  BY <1>7, RequestRetries
<1>8. CASE status'[d] = status[d]
  <2>1. AtRest(d)'
    BY <1>2, <1>3, <1>5, <1>6, <1>8 DEF AtRest, Empty, Full
  <2>2. Untouched(d)' /\ ToBeCleaned(d)'
    BY <1>2, <1>3, <1>4, <1>7, <1>8 DEF Untouched, ToBeCleaned, Empty
  <2>3. ASSUME NEW r \in Runs, doc'[r] = d PROVE Stage(r, d)'
    <3>1. Stage(r, d) /\ pc'[r] = pc[r]
      BY <1>2, <1>3, <1>4, <2>3
    <3> QED
      BY <1>3, <1>8, <3>1 DEF Stage, Empty
  <2> QED
    BY <2>1, <2>2, <2>3 DEF OrderlyInv
<1>9. CASE target[q] = d /\ step[q] \in {"retry", "delete"}
  <2>1. Acts(q, d)
    BY <1>1, <1>9 DEF Acts, Strong
  <2>2. ASSUME NEW r \in Runs, doc[r] = d
        PROVE  pc[r] \in {"done", "wipeIndex", "wipeRows"}
    <3>1. CASE r # q
      <4>1. ~AtWork(r, d)
        BY <1>1, <1>2, <2>1, <3>1 DEF Acts
      <4>2. pc[r] # "none"
        BY <1>0, <2>2, RunsAndDocs DEF Shape, RequestShape
      <4> QED
        BY <2>2, <4>1, <4>2 DEF AtWork
    <3>2. CASE r = q
      BY <1>1, <1>9, <2>2, <3>2, RunsAndDocs DEF RequestShape, BeforeTask, StatesOf
    <3> QED
      BY <3>1, <3>2
  <2>3. pc[Upload] = "done" \/ d \notin todo[Upload]
    <3>1. ~AtWork(Upload, d)
      BY <1>1, <1>2, <2>1, RunsAndDocs DEF Acts
    <3> QED
      BY <1>0, <3>1 DEF AtWork
  <2>4. Untouched(d)'
    BY <1>4, <2>3 DEF Untouched
  <2>5. ASSUME NEW r \in Runs, doc'[r] = d PROVE Stage(r, d)'
    <3>1. Stage(r, d) /\ pc'[r] = pc[r] /\ pc[r] \in {"done", "wipeIndex", "wipeRows"}
      BY <1>2, <1>3, <1>4, <2>2, <2>5
    <3> QED
      BY <1>3, <3>1 DEF Stage, OnDocument
  <2>6. CASE step[q] = "retry" /\ status'[d] = "waiting" /\ step'[q] = "retryKey" /\ target'[q] = d
    <3>1. RetryCleans(q, d)'
      BY <2>6 DEF RetryCleans
    <3>2. AtRest(d)'
      BY <1>1, <1>2, <1>3, <2>6, <3>1 DEF AtRest
    <3> QED
      BY <2>4, <2>5, <2>6, <3>2 DEF OrderlyInv, ToBeCleaned
  <2>7. CASE step[q] = "delete" /\ status'[d] = "gone" /\ kind[q] = "clean"
    <3>1. AtRest(d)'
      BY <1>2, <1>3, <2>7 DEF AtRest
    <3>2. ASSUME NEW r \in Runs, RetryAhead(r, d)' PROVE FALSE
      <4>1. RetryAhead(r, d)
        BY <2>7, <3>2, <1>7
      <4>2. r = q
        BY <1>1, <1>2, <2>1, <4>1, CommittedActs DEF Committed
      <4> QED
        BY <2>7, <4>1, <4>2 DEF RetryAhead
    <3> QED
      BY <2>4, <2>5, <3>1, <3>2 DEF OrderlyInv, ToBeCleaned
  <2> QED
    BY <1>8, <1>9, <2>6, <2>7, RequestStatus
<1> QED
  BY <1>8, <1>9, RequestStatus

(***************************************************************************)
(* A run leaves in order the documents it works on, and the others.        *)
(***************************************************************************)
LEMMA RunInOrder ==
  ASSUME Typed, Shape, Held, [Next]_vars, NEW r \in Runs, Run(r) \/ Crash(r), NEW d \in Docs,
         Alone(d), OrderlyInv(d)
  PROVE  OrderlyInv(d)'
<1> SUFFICES ASSUME ~overlapped'[d], "retry" \notin crashed' PROVE OrderlyInv(d)'
  BY DEF OrderlyInv
<1>1. RunFrame(r) /\ Moved(r) /\ HeldBy(r) /\ pc[r] \in StatesOf(kind[r]) /\ kind[r] \in Kinds
  BY RunFrames, RunMoves DEF Held, Shape, Typed, TypeOK
<1>2. /\ ~overlapped[d]
      /\ AtRest(d) /\ Untouched(d) /\ ToBeCleaned(d) /\ \A s \in Runs : doc[s] = d => Stage(s, d)
      /\ \A s, t \in Runs : Acts(s, d) /\ Acts(t, d) => s = t
      /\ status[d] = "gone" => \A s \in Runs : Acts(s, d) => kind[s] = "clean"
  BY <1>1 DEF RunFrame, OrderlyInv, Alone
<1>3. Cleaned(d) => Cleaned(d)'
  BY CleanedLasts
<1>4. ASSUME NEW s \in Runs \ {r}
      PROVE  /\ RetryCleans(s, d) <=> RetryCleans(s, d)'
             /\ RetryAhead(s, d) <=> RetryAhead(s, d)'
             /\ pc'[s] = pc[s] /\ doc'[s] = doc[s] /\ todo'[s] = todo[s] /\ nodes'[s] = nodes[s]
  BY <1>1, <1>4 DEF RunFrame, RetryCleans, RetryAhead
<1>5. pc[Upload] # "none" /\ Upload \in Runs
  BY RunsAndDocs DEF Shape, UploadShape, StatesOf, OnDocument
<1>6. CASE ~AtWork(r, d)
  <2>1. d # doc[r] /\ d \notin todo[r] /\ doc'[r] # d /\ todo'[r] \subseteq todo[r]
    BY <1>1, <1>6 DEF RunFrame, AtWork
  <2>2. SegmentsOf(d)' = SegmentsOf(d) /\ index'[d] = index[d] /\ status'[d] = status[d]
    BY <1>1, <2>1 DEF RunFrame, SegmentsOf
  <2>3. ~RetryCleans(r, d) /\ ~RetryAhead(r, d)'
    <3> SUFFICES ASSUME r \in Requests, target[r] = d PROVE ~RetryCleans(r, d) /\ ~RetryAhead(r, d)'
      BY <1>1 DEF RetryCleans, RetryAhead, RunFrame
    <3>1. RequestShape(r) /\ pc[r] \notin {"none", "done"}
      BY <1>1 DEF Shape, RunFrame
    <3> QED
      BY <2>1, <3>1 DEF RequestShape
  <2>4. AtRest(d)'
    BY <1>2, <1>3, <1>4, <2>2, <2>3 DEF AtRest, Empty, Full
  <2>5. Untouched(d)'
    BY <1>2, <1>4, <1>5, <2>1, <2>2 DEF Untouched, Empty
  <2>6. ToBeCleaned(d)'
    BY <1>2, <1>4, <2>2, <2>3 DEF ToBeCleaned
  <2>7. ASSUME NEW s \in Runs, doc'[s] = d PROVE Stage(s, d)'
    <3>1. s # r /\ Stage(s, d)
      BY <1>2, <1>4, <2>1, <2>7
    <3> QED
      BY <1>4, <2>2, <3>1 DEF Stage, Empty
  <2> QED
    BY <2>4, <2>5, <2>6, <2>7 DEF OrderlyInv
<1>7. CASE AtWork(r, d)
  <2>1. Acts(r, d) /\ Sole(r, d) /\ Ordered(r, d)
    BY <1>2, <1>7 DEF Acts, Sole, Ordered
  <2>2. OrderedNext(r, d)
    <3>1. CASE pc[r] = "queued"
      BY <1>1, <2>1, <3>1, StartsInOrder DEF Crash
    <3>2. CASE pc[r] # "queued" /\ (doc[r] # d \/ TakeDocument(r))
      BY <1>1, <2>1, <3>2, TakesInOrder
    <3>3. CASE pc[r] \notin {"queued", "next"} /\ doc[r] = d
      BY <1>1, <2>1, <3>3, WorksInOrder
    <3>4. CASE pc[r] = "next" /\ doc[r] = d /\ ~TakeDocument(r)
      <4>1. Crash(r)
        BY <3>4 DEF Run, StartIndex, StartRecover, StartRetry, StartClean, ClearSegments, Reload,
           CleanIndex, CleanIndexFails, CleanRows, SetParsing, UpdateStatus, Check, Update,
           AddSegment, MarkSegments, Chunk, ChunkChecks, ChunkIsStored, ChunkFails, ChunkCompletes,
           Step, Join, KeywordsAreStored, KeywordsComplete, KeywordThreadRaises, Loaded, RunFails,
           HandleError, IsPaused, RetryError, DeleteRetryKey, WipeIndex, WipeRows, Move
      <4>2. /\ SegmentsOf(d)' = SegmentsOf(d) /\ index'[d] = index[d] /\ status'[d] = status[d]
            /\ pc'[r] = "done"
        BY <4>1 DEF Crash, data, rows, SegmentsOf, Typed, TypeOK
      <4>3. status[d] \in {"waiting", "parsing"} => Empty(d)
        BY <1>2, <2>1, <3>4, EmptyUnlessRetried
      <4> QED
        BY <1>2, <1>3, <4>2, <4>3 DEF OrderedNext, AtRest, Stage, OnDocument, Empty, Full
    <3> QED
      BY <3>1, <3>2, <3>3, <3>4
  <2>3. ASSUME NEW s \in Runs, s # r PROVE ~AtWork(s, d) /\ ~RetryAhead(s, d)'
    <3>1. ~Acts(s, d)
      BY <1>2, <2>1, <2>3
    <3> QED
      BY <1>4, <2>3, <3>1, CommittedActs DEF Acts, Committed
  <2>4. ASSUME NEW s \in Runs, doc'[s] = d PROVE Stage(s, d)'
    <3>1. CASE s = r
      BY <2>2, <2>4, <3>1 DEF OrderedNext
    <3>2. CASE s # r
      <4>1. pc'[s] \in {"none", "done"}
        BY <1>4, <2>3, <2>4, <3>2 DEF AtWork
      <4> QED
        BY <4>1 DEF Stage, OnDocument
    <3> QED
      BY <3>1, <3>2
  <2>5. Untouched(d)'
    <3>1. CASE Upload # r
      BY <1>4, <1>5, <2>3, <3>1 DEF Untouched, AtWork
    <3>2. CASE Upload = r
      <4> SUFFICES ASSUME pc'[r] # "done", d \in todo'[r]
                   PROVE  Empty(d)' /\ status'[d] \in {"waiting", "parsing"}
        BY <3>2 DEF Untouched
      <4>1. d \in todo[r] /\ doc[r] # d /\ pc[r] # "done" /\ kind[r] = "index"
        BY <1>1, <3>2 DEF RunFrame, Shape, UploadShape
      <4>2. Empty(d) /\ status[d] \in {"waiting", "parsing"}
        BY <1>2, <3>2, <4>1 DEF Untouched
      <4>3. Empty(d)'
        BY <1>1, <4>1, <4>2 DEF RunFrame, Empty, SegmentsOf
      <4>4. CASE pc[r] # "queued"
        BY <1>1, <4>1, <4>2, <4>3, <4>4 DEF RunFrame
      <4>5. CASE pc[r] = "queued"
        <5>1. StartIndex(r)
          BY <4>1, <4>5 DEF Run, Crash, TakeDocument, StartRecover, StartRetry, StartClean,
             ClearSegments, Reload, CleanIndex, CleanIndexFails, CleanRows, SetParsing,
             UpdateStatus, Check, Update, AddSegment, MarkSegments, Chunk, ChunkChecks,
             ChunkIsStored, ChunkFails, ChunkCompletes, Step, Join, KeywordsAreStored,
             KeywordsComplete, KeywordThreadRaises, Loaded, RunFails, HandleError, IsPaused,
             RetryError, DeleteRetryKey, WipeIndex, WipeRows, Move
        <5>2. Advance(todo[r], "parsing")
          BY <5>1 DEF StartIndex, Move, Typed, TypeOK
        <5> QED
          BY <4>1, <4>2, <4>3, <5>2 DEF Advance, Write
      <4> QED
        BY <4>4, <4>5
    <3> QED
      BY <3>1, <3>2
  <2>6. ToBeCleaned(d)'
    <3> SUFFICES ASSUME RetryAhead(r, d)' PROVE status'[d] = "waiting"
      BY <2>3 DEF ToBeCleaned
    <3>1. /\ r \in Requests /\ target[r] = d /\ kind[r] = "retry" /\ RequestShape(r)
          /\ pc'[r] \in {"queued", "cleanIndex", "cleanRows", "setParsing"}
      <4>1. r \in Requests /\ target[r] = d /\ UNCHANGED <<step, kind>> /\ pc[r] \notin {"none", "done"}
        BY <1>1 DEF RetryAhead, RunFrame
      <4>2. step[r] \notin {"retryKey", "retryTask"}
        BY <1>1, <4>1 DEF Shape, RequestShape, BeforeTask, StatesOf
      <4> QED
        BY <4>1, <4>2 DEF RetryAhead, Shape
    <3>2. RetryAhead(r, d) /\ status'[d] = status[d]
      <4> USE <1>1, <3>1 DEF RetryAhead, Move, StatesOf, OnDocument, Typed, TypeOK, rows
      <4>1. pc[r] \in {"queued", "cleanIndex", "cleanRows", "setParsing"}
        BY DEF Run, Crash, StartIndex, TakeDocument, StartRecover, StartRetry, StartClean,
             ClearSegments, Reload, CleanIndex, CleanIndexFails, CleanRows, SetParsing,
             UpdateStatus, Check, Update, AfterDocument, AddSegment, MarkSegments, Chunk, ChunkChecks,
             ChunkIsStored, ChunkFails, ChunkCompletes, Step, Join, KeywordsAreStored,
             KeywordsComplete, KeywordThreadRaises, Loaded, RunFails, HandleError, IsPaused,
             RetryError, DeleteRetryKey, WipeIndex, WipeRows, runs
      <4>2. StartRetry(r) \/ CleanIndex(r) \/ CleanRows(r)
        BY <4>1 DEF Run, Crash, StartIndex, TakeDocument, StartRecover, StartClean,
             ClearSegments, Reload, CleanIndexFails, SetParsing,
             UpdateStatus, Check, Update, AddSegment, MarkSegments, Chunk, ChunkChecks,
             ChunkIsStored, ChunkFails, ChunkCompletes, Step, Join, KeywordsAreStored,
             KeywordsComplete, KeywordThreadRaises, Loaded, RunFails, HandleError, IsPaused,
             RetryError, DeleteRetryKey, WipeIndex, WipeRows
      <4>3. status' = status
        BY <4>2 DEF StartRetry, CleanIndex, CleanRows
      <4> QED
        BY <4>1, <4>3
    <3> QED
      BY <1>2, <3>2 DEF ToBeCleaned
  <2> QED
    BY <2>2, <2>4, <2>5, <2>6 DEF OrderlyInv, OrderedNext
<1> QED
  BY <1>6, <1>7

LEMMA InitOrderly == ASSUME Init, NEW d \in Docs PROVE OrderlyInv(d)
<1>1. SegmentsOf(d) = {} /\ index[d] = {} /\ status[d] = "waiting" /\ doc = [r \in Runs |-> NoDoc]
  BY DEF Init, SegmentsOf
<1>2. \A r \in Runs : doc[r] # d
  BY <1>1, RunsAndDocs
<1> QED
  BY <1>1, <1>2 DEF OrderlyInv, AtRest, Untouched, ToBeCleaned, Empty

LEMMA NextOrderly ==
  ASSUME Typed, Shape, Held, [Next]_vars, NEW d \in Docs, Alone(d), OrderlyInv(d)
  PROVE  OrderlyInv(d)'
<1>1. CASE UNCHANGED vars
  BY <1>1 DEF OrderlyInv, AtRest, Untouched, ToBeCleaned, Stage, RetryCleans, RetryAhead, Empty,
     Full, Cleaned, SegmentsOf, vars, rows, data, requests, runs, history
<1>2. ASSUME NEW e \in Docs, ExpireRetryKey(e) PROVE OrderlyInv(d)'
  BY <1>2 DEF ExpireRetryKey, OrderlyInv, AtRest, Untouched, ToBeCleaned, Stage, RetryCleans,
     RetryAhead, Empty, Full, Cleaned, SegmentsOf, rows, data, requests, runs, history
<1> QED
  BY <1>1, <1>2, Steps, RequestInOrder, RunInOrder

OrderlyHolds == Typed /\ Shape /\ Held /\ \A d \in Docs : Alone(d) /\ OrderlyInv(d)

LEMMA OrderlyAlways == Safety => []OrderlyHolds
<1>1. Init => OrderlyHolds
  BY InitTyped, InitShape, InitHeld, InitAlone, InitOrderly DEF OrderlyHolds
<1>2. OrderlyHolds /\ [Next]_vars => OrderlyHolds'
  BY NextTyped, NextShape, NextHeld, NextAlone, NextOrderly DEF OrderlyHolds
<1> QED
  BY <1>1, <1>2, PTL DEF Safety

(***************************************************************************)
(* If users wait before they recover, retry or delete a document, and no   *)
(* retry dies, no chunk of the document is stored twice, however often it  *)
(* is paused, recovered and retried.                                       *)
(***************************************************************************)
THEOREM SegmentsInOrder == Safety => []OneSegmentPerChunk
<1>1. OrderlyHolds => OneSegmentPerChunk
  BY DEF OrderlyHolds, OneSegmentPerChunk, OrderlyInv, AtRest
<1> QED
  BY <1>1, OrderlyAlways, PTL

(***************************************************************************)
(* Under the same conditions the index holds nothing but the segments the  *)
(* document has.                                                           *)
(***************************************************************************)
THEOREM NoOrphans == Safety => []NoOrphanInIndex
<1>1. OrderlyHolds => NoOrphanInIndex
  BY DEF OrderlyHolds, NoOrphanInIndex, OrderlyInv, AtRest
<1> QED
  BY <1>1, OrderlyAlways, PTL

-----------------------------------------------------------------------------
(* What is loaded when no worker dies *)

LoadedNext(r, d) == LoadedRows(d)' /\ (doc'[r] = d => LoadedRun(r, d)')

(***************************************************************************)
(* The run that works on a document loads what it has marked or reloaded.  *)
(***************************************************************************)
LEMMA WorksToLoad ==
  ASSUME Typed, Shape, NEW r \in Runs, Run(r), HeldBy(r), NEW d \in Docs,
         Sole(r, d), Ordered(r, d), doc[r] = d, pc[r] \notin {"queued", "next"},
         ~Cleaned(d), LoadedRows(d), LoadedRun(r, d)
  PROVE  LoadedNext(r, d)
<1>1. /\ pc \in [Runs -> RunStates] /\ nodes \in [Runs -> SUBSET Nodes]
      /\ segment \in [Docs -> [Nodes -> SegmentStates]]
      /\ doc \in [Runs -> Docs \union {NoDoc}] /\ status \in [Docs -> Statuses]
      /\ thread \in [Runs -> [Nodes -> ThreadStates]]
      /\ pc[r] \in StatesOf(kind[r]) /\ kind[r] \in Kinds /\ technique' = technique
  BY RunFrames DEF Typed, TypeOK, Shape, RunFrame
<1>2. Stage(r, d) /\ AtRest(d)
  BY DEF Ordered
<1>3. kind[r] # "clean" /\ status[d] # "gone"
  BY DEF Cleaned, Sole
<1>4. Marking(d) => pc[r] = "mark"
  <2> SUFFICES ASSUME NEW s \in Runs, doc[s] = d, pc[s] = "mark" PROVE pc[r] = "mark"
    BY DEF Marking
  <2>1. Acts(s, d)
    BY DEF Acts, AtWork
  <2> QED
    BY <2>1 DEF Sole
<1>5. ASSUME UNCHANGED rows PROVE status'[d] = status[d]
  BY <1>5 DEF rows
<1>6. ASSUME UNCHANGED data PROVE segment'[d] = segment[d]
  BY <1>6 DEF data
<1>7. ASSUME \/ segment'[d] = segment[d] /\ status'[d] = status[d]
             \/ status'[d] \notin {"indexing", "completed"},
             pc'[r] \notin {"load", "checkCompleted", "setCompleted"}, pc[r] # "mark"
      PROVE  LoadedNext(r, d)
  <2>1. SegmentsOf(d)' = SegmentsOf(d) \/ status'[d] \notin {"indexing", "completed"}
    BY <1>7 DEF SegmentsOf
  <2> QED
    BY <1>1, <1>4, <1>7, <2>1 DEF LoadedNext, LoadedRows, LoadedRun, Full, AllCompleted
<1> USE <1>1, <1>2 DEF Move
<1>8. CASE ClearSegments(r)
  <2>1. status'[d] = "splitting" /\ pc'[r] = "extract" /\ pc[r] # "mark"
    BY <1>5, <1>8 DEF ClearSegments, Stage
  <2> QED
    BY <1>7, <2>1
<1>9. CASE Reload(r)
  <2>1. /\ SegmentsOf(d)' = SegmentsOf(d) /\ segment'[d] = segment[d] /\ status'[d] = status[d]
        /\ pc[r] = "reload" /\ pc'[r] = "load" /\ nodes'[r] = Unindexed(d) /\ status[d] = "indexing"
    BY <1>5, <1>6, <1>9 DEF Reload, Load, SegmentsOf, Stage
  <2>2. \A n \in Nodes : thread'[r][n] \in {"todo", "out"}
    BY <1>9 DEF Reload, Load
  <2>3. \A n \in Nodes : segment[d][n] # "waiting"
    BY <1>4, <2>1 DEF LoadedRows
  <2>4. \A n \in SegmentsOf(d) : n \in Nodes /\ (n \notin Unindexed(d) => segment[d][n] = "completed")
    BY DEF SegmentsOf, Unindexed
  <2> QED
    BY <2>1, <2>2, <2>3, <2>4 DEF LoadedNext, LoadedRows, LoadedRun
<1>10. CASE CleanIndex(r) \/ CleanIndexFails(r)
  BY <1>5, <1>7, <1>10 DEF CleanIndex, CleanIndexFails, data
<1>11. CASE CleanRows(r)
  <2>1. pc[r] = "cleanRows" /\ pc'[r] = "setParsing" /\ status'[d] = status[d]
    BY <1>5, <1>11 DEF CleanRows
  <2>2. status[d] = "waiting"
    BY <1>3, <2>1, RunsAndDocs DEF Ordered, ToBeCleaned, RetryAhead, StatesOf, OnDocument, Kinds,
       Shape, RequestShape, UploadShape
  <2> QED
    BY <1>7, <2>1, <2>2
<1>12. CASE SetParsing(r)
  <2>1. status'[d] = "parsing" /\ pc'[r] = "extract" /\ pc[r] # "mark"
    BY <1>3, <1>12 DEF SetParsing, Advance, Write, Exists
  <2> QED
    BY <1>7, <2>1
<1>13. CASE Check(r, "extract", "setSplitting") \/ Check(r, "add", "setIndexing")
  BY <1>5, <1>6, <1>7, <1>13 DEF Check
<1>14. CASE Check(r, "checkCompleted", "setCompleted")
  <2>1. /\ segment'[d] = segment[d] /\ status'[d] = status[d] /\ pc[r] = "checkCompleted"
        /\ pc'[r] \in {"paused", "error", "setCompleted"} /\ SegmentsOf(d)' = SegmentsOf(d)
    BY <1>5, <1>6, <1>14 DEF Check, SegmentsOf
  <2> QED
    BY <1>4, <2>1 DEF LoadedNext, LoadedRows, LoadedRun, Full, AllCompleted
<1>15. CASE Update(r, "setSplitting", "add", StatusOnceExtracted)
  <2>1. status'[d] = "splitting" /\ pc'[r] = "add" /\ pc[r] # "mark"
    BY <1>3, <1>15 DEF Update, Advance, Write, Exists, StatusOnceExtracted
  <2> QED
    BY <1>7, <2>1
<1>16. CASE Update(r, "setIndexing", "mark", "indexing")
  <2>1. status'[d] = "indexing" /\ pc'[r] = "mark" /\ doc'[r] = d
    BY <1>3, <1>16 DEF Update, Advance, Write, Exists
  <2>2. Marking(d)'
    BY <2>1 DEF Marking
  <2> QED
    BY <2>1, <2>2 DEF LoadedNext, LoadedRows, LoadedRun
<1>17. CASE Update(r, "setCompleted", AfterDocument(r), "completed")
  <2>1. /\ status[d] = "indexing" /\ pc[r] = "setCompleted" /\ segment'[d] = segment[d]
        /\ pc'[r] \in {"next", "done", "unkey"} /\ SegmentsOf(d)' = SegmentsOf(d)
    BY <1>6, <1>17 DEF Update, AfterDocument, Stage, SegmentsOf
  <2>2. Full(d)'
    <3>1. Full(d)
      BY <2>1 DEF AtRest
    <3> QED
      BY <2>1, <3>1 DEF Full
  <2>3. \A n \in Nodes : segment'[d][n] # "waiting"
    BY <1>4, <2>1 DEF LoadedRows
  <2>4. technique = "high_quality" => AllCompleted(d)'
    BY <2>1 DEF LoadedRun, AllCompleted
  <2> QED
    BY <2>1, <2>2, <2>3, <2>4 DEF LoadedNext, LoadedRows, LoadedRun
<1>18. CASE UpdateStatus(r)
  BY <1>13, <1>14, <1>15, <1>16, <1>17, <1>18 DEF UpdateStatus
<1>19. CASE AddSegment(r)
  <2>1. status'[d] = "splitting" /\ pc'[r] = "add" /\ pc[r] = "add"
    BY <1>5, <1>19 DEF AddSegment, Stage
  <2> QED
    BY <1>7, <2>1
<1>20. CASE MarkSegments(r)
  <2>1. /\ SegmentsOf(d)' = SegmentsOf(d) /\ (\A n \in Nodes : segment'[d][n] \in {"none", "indexing"})
        /\ (\A n \in Nodes : thread'[r][n] \in {"todo", "out"})
        /\ status'[d] = "indexing" /\ pc'[r] = "load" /\ nodes'[r] = {r} \X Chunks
    BY <1>5, <1>20 DEF MarkSegments, Load, SegmentsOf, Stage
  <2>2. SegmentsOf(d) = {r} \X Chunks /\ SegmentsOf(d) \subseteq Nodes
    BY <1>20 DEF MarkSegments, Stage, SegmentsOf
  <2> QED
    BY <2>1, <2>2 DEF LoadedNext, LoadedRows, LoadedRun
<1>21. CASE Chunk(r)
  <2>1. PICK n \in Nodes :
          ChunkChecks(r, n) \/ ChunkIsStored(r, n) \/ ChunkFails(r, n) \/ ChunkCompletes(r, n)
    BY <1>21 DEF Chunk
  <2>2. /\ status'[d] = status[d] /\ status[d] = "indexing" /\ pc[r] = "load" /\ pc'[r] = "load"
        /\ nodes'[r] = nodes[r] /\ \A m \in Nodes : m # n => thread'[r][m] = thread[r][m]
    BY <1>5, <2>1 DEF ChunkChecks, ChunkIsStored, ChunkFails, ChunkCompletes, Step, Stage
  <2>3. /\ \A m \in Nodes : m # n => segment'[d][m] = segment[d][m]
        /\ \/ segment'[d][n] = segment[d][n] /\ thread'[r][n] # "done"
           \/ /\ thread[r][n] = "stored"
              /\ segment'[d][n] = IF segment[d][n] = "indexing" THEN "completed" ELSE segment[d][n]
    BY <2>1 DEF ChunkChecks, ChunkIsStored, ChunkFails, ChunkCompletes, ToComplete, Step, data
  <2>4. \A m \in Nodes : segment[d][m] # "waiting"
    BY <1>4, <2>2 DEF LoadedRows
  <2>5. \A m \in Nodes : segment'[d][m] # "waiting"
    BY <2>3, <2>4
  <2>6. ASSUME NEW m \in SegmentsOf(d)', m \notin nodes'[r] \/ thread'[r][m] = "done"
        PROVE  segment'[d][m] = "completed"
    <3>1. m \in SegmentsOf(d) /\ m \in Nodes
      BY <2>3 DEF SegmentsOf
    <3>2. segment[d][m] \in {"indexing", "completed"}
      BY <2>4, <3>1 DEF SegmentsOf, SegmentStates
    <3>3. m \notin nodes[r] \/ thread[r][m] = "done" => segment[d][m] = "completed"
      BY <2>2, <3>1 DEF LoadedRun
    <3> QED
      BY <2>2, <2>3, <2>6, <3>1, <3>2, <3>3
  <2> QED
    BY <2>2, <2>5, <2>6 DEF LoadedNext, LoadedRows, LoadedRun
<1>22. CASE Join(r)
  <2>1. /\ segment'[d] = segment[d] /\ status'[d] = status[d] /\ pc[r] = "load"
        /\ pc'[r] \in {"paused", "error", "checkCompleted"}
        /\ pc'[r] = "checkCompleted" => \A n \in nodes[r] : thread[r][n] = "done"
    BY <1>5, <1>6, <1>22 DEF Join, Loaded
  <2>2. CASE pc'[r] # "checkCompleted"
    BY <1>7, <2>1, <2>2
  <2>3. CASE pc'[r] = "checkCompleted"
    <3>1. AllCompleted(d)'
      BY <2>1, <2>3 DEF LoadedRun, AllCompleted, SegmentsOf
    <3>2. status[d] = "indexing" /\ \A n \in Nodes : segment[d][n] # "waiting"
      BY <1>4, <2>1 DEF Stage, LoadedRows
    <3> QED
      BY <2>1, <2>3, <3>1, <3>2 DEF LoadedNext, LoadedRows, LoadedRun
  <2> QED
    BY <2>2, <2>3
<1>23. CASE KeywordsAreStored(r)
  BY <1>5, <1>7, <1>23 DEF KeywordsAreStored
<1>24. CASE KeywordsComplete(r) \/ KeywordThreadRaises(r)
  <2>1. /\ status'[d] = "indexing" /\ status[d] = "indexing" /\ pc[r] \in {"load", "keywords"}
        /\ pc'[r] = "checkCompleted"
        /\ \A n \in Nodes : segment'[d][n] = segment[d][n] \/ segment'[d][n] = "completed"
        /\ technique # "high_quality"
    BY <1>5, <1>6, <1>24 DEF KeywordsComplete, KeywordThreadRaises, Loaded, Stage, HeldBy, data
  <2>2. \A n \in Nodes : segment'[d][n] # "waiting"
    BY <1>4, <2>1 DEF LoadedRows
  <2> QED
    BY <2>1, <2>2 DEF LoadedNext, LoadedRows, LoadedRun
<1>25. CASE RunFails(r)
  BY <1>5, <1>6, <1>7, <1>25 DEF RunFails
<1>26. CASE HandleError(r)
  <2>1. status'[d] = "error" /\ pc[r] = "error" /\ pc'[r] \in {"next", "done", "unkey"}
    BY <1>3, <1>26 DEF HandleError, Write, Exists, AfterDocument
  <2> QED
    BY <1>7, <2>1
<1>27. CASE IsPaused(r)
  BY <1>5, <1>6, <1>7, <1>27 DEF IsPaused
<1>28. CASE RetryError(r)
  <2>1. status'[d] = "error" /\ pc[r] = "retryError" /\ pc'[r] = "unkey"
    BY <1>3, <1>28 DEF RetryError, Write, Exists
  <2> QED
    BY <1>7, <2>1
<1>29. CASE DeleteRetryKey(r)
  BY <1>5, <1>6, <1>7, <1>29 DEF DeleteRetryKey
<1>30. /\ ~StartIndex(r) /\ ~TakeDocument(r) /\ ~StartRecover(r) /\ ~StartRetry(r) /\ ~StartClean(r)
       /\ ~WipeIndex(r) /\ ~WipeRows(r)
  BY <1>3 DEF StartIndex, TakeDocument, StartRecover, StartRetry, StartClean, WipeIndex, WipeRows,
     StatesOf, OnDocument, Kinds
<1> QED
  BY <1>8, <1>9, <1>10, <1>11, <1>12, <1>18, <1>19, <1>20, <1>21, <1>22, <1>23, <1>24, <1>25,
     <1>26, <1>27, <1>28, <1>29, <1>30
     DEF Run

(***************************************************************************)
(* A run that takes a document up has not begun to load it.                *)
(***************************************************************************)
LEMMA StartsToLoad ==
  ASSUME Typed, Shape, NEW r \in Runs, Run(r), NEW d \in Docs, Sole(r, d), Ordered(r, d),
         doc[r] # d \/ pc[r] \in {"queued", "next"}, LoadedRows(d)
  PROVE  LoadedNext(r, d)
<1>1. /\ pc \in [Runs -> RunStates] /\ doc \in [Runs -> Docs \union {NoDoc}]
      /\ status \in [Docs -> Statuses] /\ pc[r] \in StatesOf(kind[r]) /\ kind[r] \in Kinds
      /\ technique' = technique /\ pc[r] # "none" /\ pc[r] # "done" /\ todo \in [Runs -> SUBSET Docs]
  BY RunFrames DEF Typed, TypeOK, Shape, RunFrame
<1>2. ~Marking(d)
  <2> SUFFICES ASSUME NEW s \in Runs, doc[s] = d, pc[s] = "mark" PROVE FALSE
    BY DEF Marking
  <2>1. Acts(s, d)
    BY DEF Acts, AtWork
  <2> QED
    BY <2>1 DEF Sole
<1>3. ASSUME pc[r] \in {"queued", "next"} \/ doc'[r] # doc[r]
      PROVE  StartIndex(r) \/ TakeDocument(r) \/ StartRecover(r) \/ StartRetry(r) \/ StartClean(r)
  BY <1>1, <1>3 DEF Run, ClearSegments, Reload, CleanIndex, CleanIndexFails, CleanRows, SetParsing,
     UpdateStatus, Check, Update, AddSegment, MarkSegments, Chunk, ChunkChecks, ChunkIsStored,
     ChunkFails, ChunkCompletes, Step, Join, KeywordsAreStored, KeywordsComplete,
     KeywordThreadRaises, Loaded, RunFails, HandleError, IsPaused, RetryError, DeleteRetryKey,
     WipeIndex, WipeRows, Move, runs
<1>4. ASSUME StartIndex(r) \/ TakeDocument(r) \/ StartRecover(r) \/ StartRetry(r) \/ StartClean(r)
      PROVE  /\ pc'[r] \notin {"load", "checkCompleted", "setCompleted"} /\ segment'[d] = segment[d]
             /\ status'[d] = status[d] \/ status'[d] \notin {"indexing", "completed"}
  <2>1. segment' = segment
    BY <1>4 DEF StartIndex, TakeDocument, StartRecover, StartRetry, StartClean, data
  <2>2. pc'[r] \notin {"load", "checkCompleted", "setCompleted"}
    BY <1>1, <1>4 DEF StartIndex, TakeDocument, StartRecover, Resume, StartRetry, StartClean, Move
  <2>3. status'[d] = status[d] \/ status'[d] \notin {"indexing", "completed"}
    BY <1>1, <1>4 DEF StartIndex, TakeDocument, StartRecover, StartRetry, StartClean, Advance,
       Write, rows
  <2> QED
    BY <2>1, <2>2, <2>3
<1>5. CASE pc[r] \in {"queued", "next"} \/ doc'[r] # doc[r]
  <2>1. SegmentsOf(d)' = SegmentsOf(d)
    BY <1>3, <1>4, <1>5 DEF SegmentsOf
  <2> QED
    BY <1>1, <1>2, <1>3, <1>4, <1>5, <2>1 DEF LoadedNext, LoadedRows, LoadedRun, Full, AllCompleted
<1>6. CASE pc[r] \notin {"queued", "next"} /\ doc'[r] = doc[r]
  <2>1. SegmentsOf(d)' = SegmentsOf(d) /\ segment'[d] = segment[d] /\ status'[d] = status[d]
    BY <1>6, RunFrames DEF RunFrame, SegmentsOf
  <2> QED
    BY <1>1, <1>2, <1>6, <2>1 DEF LoadedNext, LoadedRows, Full, AllCompleted
<1> QED
  BY <1>5, <1>6

LEMMA InitLoaded == ASSUME Init, NEW d \in Docs PROVE LoadedInv(d)
<1>1. status[d] = "waiting" /\ \A r \in Runs : doc[r] # d
  BY RunsAndDocs DEF Init
<1> QED
  BY <1>1 DEF LoadedInv, LoadedRows

LEMMA NextLoaded ==
  ASSUME Typed, Shape, Held, [Next]_vars, NEW d \in Docs, Alone(d), OrderlyInv(d), LoadedInv(d)
  PROVE  LoadedInv(d)'
<1> SUFFICES ASSUME ~overlapped'[d], crashed' = {}, ~Cleaned(d)'
             PROVE  LoadedRows(d)' /\ \A s \in Runs : doc'[s] = d => LoadedRun(s, d)'
  BY DEF LoadedInv
<1>1. ~Cleaned(d)
  BY CleanedLasts
<1>2. CASE UNCHANGED vars
  BY <1>1, <1>2 DEF LoadedInv, LoadedRows, LoadedRun, Marking, Full, AllCompleted, SegmentsOf,
     vars, rows, data, runs, history
<1>3. ASSUME NEW e \in Docs, ExpireRetryKey(e)
      PROVE  LoadedRows(d)' /\ \A s \in Runs : doc'[s] = d => LoadedRun(s, d)'
  BY <1>1, <1>3 DEF ExpireRetryKey, LoadedInv, LoadedRows, LoadedRun, Marking, Full, AllCompleted,
     SegmentsOf, rows, data, runs, history
<1>4. ASSUME NEW q \in Requests, NEW e \in Docs, AskAbout(q, e) \/ Request(q)
      PROVE  LoadedRows(d)' /\ \A s \in Runs : doc'[s] = d => LoadedRun(s, d)'
  <2>1. RequestFrame(q) /\ RequestShape(q)
    BY <1>4, RequestFrames DEF Shape
  <2>2. LoadedRows(d) /\ \A s \in Runs : doc[s] = d => LoadedRun(s, d)
    BY <1>1, <2>1 DEF LoadedInv, RequestFrame
  <2>3. /\ segment' = segment /\ doc' = doc /\ nodes' = nodes /\ thread' = thread
        /\ technique' = technique /\ SegmentsOf(d)' = SegmentsOf(d)
    BY <2>1 DEF RequestFrame, SegmentsOf
  <2>4. \A s \in Runs : doc[s] = d => pc'[s] = pc[s]
    <3>1. pc'[q] # pc[q] => doc[q] = NoDoc
      BY <1>4, <2>1, RequestMoves DEF RequestShape
    <3> QED
      BY <2>1, <3>1, RunsAndDocs DEF RequestFrame
  <2>5. Marking(d)' <=> Marking(d)
    BY <2>3, <2>4 DEF Marking
  <2>6. status'[d] = status[d] \/ status'[d] \notin {"indexing", "completed"}
    BY <1>4, RequestStatus
  <2>7. LoadedRows(d)'
    BY <2>2, <2>3, <2>5, <2>6 DEF LoadedRows, Full, AllCompleted
  <2>8. ASSUME NEW s \in Runs, doc'[s] = d PROVE LoadedRun(s, d)'
    BY <2>2, <2>3, <2>4, <2>8 DEF LoadedRun, AllCompleted
  <2> QED
    BY <2>7, <2>8
<1>5. ASSUME NEW r \in Runs, Run(r) \/ Crash(r)
      PROVE  LoadedRows(d)' /\ \A s \in Runs : doc'[s] = d => LoadedRun(s, d)'
  <2>1. RunFrame(r) /\ HeldBy(r) /\ Run(r)
    BY <1>5, RunFrames DEF Held, Crash
  <2>2. /\ ~overlapped[d] /\ crashed = {}
        /\ LoadedRows(d) /\ \A s \in Runs : doc[s] = d => LoadedRun(s, d)
    BY <1>1, <2>1 DEF LoadedInv, RunFrame
  <2>3. CASE ~AtWork(r, d)
    <3>1. d # doc[r] /\ d \notin todo[r] /\ doc'[r] # d
      BY <2>1, <2>3 DEF RunFrame, AtWork
    <3>2. /\ SegmentsOf(d)' = SegmentsOf(d) /\ segment'[d] = segment[d] /\ status'[d] = status[d]
          /\ technique' = technique
      BY <2>1, <3>1 DEF RunFrame, SegmentsOf
    <3>3. Marking(d)' <=> Marking(d)
      BY <2>1, <3>1 DEF Marking, RunFrame
    <3>4. LoadedRows(d)'
      BY <2>2, <3>2, <3>3 DEF LoadedRows, Full, AllCompleted
    <3>5. ASSUME NEW s \in Runs, doc'[s] = d PROVE LoadedRun(s, d)'
      <4>1. s # r /\ doc[s] = d /\ pc'[s] = pc[s] /\ nodes'[s] = nodes[s] /\ thread'[s] = thread[s]
        BY <2>1, <3>1, <3>5 DEF RunFrame
      <4> QED
        BY <2>2, <3>2, <4>1 DEF LoadedRun, AllCompleted
    <3> QED
      BY <3>4, <3>5
  <2>4. CASE AtWork(r, d)
    <3>1. Acts(r, d) /\ Sole(r, d)
      BY <2>2, <2>4 DEF Acts, Sole, Alone
    <3>2. Ordered(r, d)
      BY <2>2 DEF Ordered, OrderlyInv
    <3>3. LoadedNext(r, d)
      <4>1. CASE doc[r] # d \/ pc[r] \in {"queued", "next"}
        BY <2>1, <2>2, <3>1, <3>2, <4>1, StartsToLoad
      <4>2. CASE doc[r] = d /\ pc[r] \notin {"queued", "next"}
        BY <1>1, <2>1, <2>2, <3>1, <3>2, <4>2, WorksToLoad
      <4> QED
        BY <4>1, <4>2
    <3>4. ASSUME NEW s \in Runs, doc'[s] = d, s # r PROVE LoadedRun(s, d)'
      <4>1. ~Acts(s, d) /\ doc[s] = d /\ pc'[s] = pc[s]
        BY <2>1, <3>1, <3>4 DEF Sole, RunFrame
      <4>2. pc'[s] \in {"none", "done"}
        BY <4>1 DEF Acts, AtWork
      <4> QED
        BY <4>2 DEF LoadedRun
    <3> QED
      BY <3>3, <3>4 DEF LoadedNext
  <2> QED
    BY <2>3, <2>4
<1> QED
  BY <1>2, <1>3, <1>4, <1>5, Steps

(***************************************************************************)
(* A document that embeddings index, and that nobody deletes, is completed *)
(* only with each of its chunks completed and in the index, if no worker   *)
(* dies and users wait before they recover, retry or delete it.            *)
(***************************************************************************)
THEOREM CompletedCanBeSearched == Safety => []CompletedIsSearchable
<1> DEFINE Inv == /\ Typed /\ Shape /\ Held /\ Fresh /\ IndexedInv
                  /\ \A d \in Docs : Alone(d) /\ OrderlyInv(d) /\ LoadedInv(d)
<1>1. Init => Inv
  BY InitTyped, InitShape, InitHeld, InitFresh, InitIndexed, InitAlone, InitOrderly, InitLoaded
<1>2. Inv /\ [Next]_vars => Inv'
  BY NextTyped, NextShape, NextHeld, NextFresh, NextIndexed, NextAlone, NextOrderly, NextLoaded
<1>3. Inv => CompletedIsSearchable
  <2> SUFFICES ASSUME Inv, technique = "high_quality", crashed = {}, NEW d \in Docs,
                      status[d] = "completed", ~overlapped[d], ~Cleaned(d), NEW c \in Chunks
               PROVE  \E r \in Runs : segment[d][<<r, c>>] = "completed" /\ <<r, c>> \in index[d]
    BY DEF CompletedIsSearchable
  <2>1. Full(d) /\ AllCompleted(d) /\ ToBeCleaned(d)
    BY DEF LoadedInv, LoadedRows, OrderlyInv
  <2>2. PICK r \in Runs : <<r, c>> \in SegmentsOf(d)
    BY <2>1 DEF Full
  <2>3. <<r, c>> \in Nodes /\ segment[d][<<r, c>>] = "completed"
    BY <2>1, <2>2 DEF AllCompleted, SegmentsOf
  <2>4. Vouched(d, <<r, c>>)
    BY <2>3 DEF IndexedInv
  <2>5. ASSUME NEW s \in Runs, doc[s] = d, pc[s] \in {"cleanRows", "wipeRows"} PROVE FALSE
    <3>1. kind[s] \in Kinds /\ pc[s] \in StatesOf(kind[s]) /\ kind[s] # "clean"
      BY <2>5 DEF Typed, TypeOK, Shape, Cleaned
    <3>2. kind[s] = "retry" /\ pc[s] = "cleanRows"
      BY <2>5, <3>1 DEF StatesOf, OnDocument, Kinds
    <3>3. s \in Requests /\ target[s] = d
      BY <2>5, <3>2, RunsAndDocs DEF Shape, RequestShape, UploadShape
    <3>4. RetryAhead(s, d)
      BY <3>2, <3>3 DEF RetryAhead
    <3> QED
      BY <2>1, <3>4 DEF ToBeCleaned
  <2> QED
    BY <2>3, <2>4, <2>5 DEF Vouched
<1> QED
  BY <1>1, <1>2, <1>3, PTL DEF Safety

-----------------------------------------------------------------------------
(* Deletion *)

LEMMA InitWiped == ASSUME Init, NEW d \in Docs PROVE WipedInv(d)
BY RunsAndDocs DEF Init, WipedInv

LEMMA NextWiped ==
  ASSUME Typed, Shape, Held, [Next]_vars, NEW d \in Docs, Alone(d), OrderlyInv(d), WipedInv(d)
  PROVE  WipedInv(d)'
<1> SUFFICES ASSUME ~overlapped'[d], crashed' = {},
                    NEW r \in Runs, kind'[r] = "clean", pc'[r] = "done", doc'[r] = d
             PROVE  Empty(d)'
  BY DEF WipedInv
<1>1. CASE UNCHANGED vars
  BY <1>1 DEF WipedInv, Empty, SegmentsOf, vars, data, runs, history
<1>2. ASSUME NEW e \in Docs, ExpireRetryKey(e) PROVE Empty(d)'
  BY <1>2 DEF ExpireRetryKey, WipedInv, Empty, SegmentsOf, data, runs, history
<1>3. ASSUME NEW q \in Requests, NEW e \in Docs, AskAbout(q, e) \/ Request(q) PROVE Empty(d)'
  <2>1. RequestFrame(q) /\ RequestShape(r)' /\ (pc'[q] # pc[q] => pc'[q] = "queued")
    <3>1. r \in Requests
      BY NextShape, RunsAndDocs DEF Shape, UploadShape
    <3> QED
      BY <1>3, <3>1, NextShape, RequestFrames, RequestMoves DEF Shape
  <2>2. pc[r] = "done" /\ doc[r] = d /\ crashed = {} /\ ~overlapped[d]
    BY <2>1 DEF RequestFrame
  <2>3. kind[r] = "clean"
    <3>1. CASE r # q
      BY <2>1, <3>1 DEF RequestFrame
    <3>2. CASE r = q
      BY <1>3, <2>1, <2>2, <3>2 DEF AskAbout, AskPause, AskRecover, AskRetry, AskDelete, Start,
         Request, CommitPause, SetPausedKey, CommitRecover, DeletePausedKey, SendRecover,
         CommitRetry, SetRetryKey, SendRetry, RemoveRow, runs, Typed, TypeOK
    <3> QED
      BY <3>1, <3>2
  <2> QED
    BY <2>1, <2>2, <2>3 DEF WipedInv, RequestFrame, Empty, SegmentsOf
<1>4. ASSUME NEW s \in Runs, Run(s) \/ Crash(s) PROVE Empty(d)'
  <2>1. RunFrame(s) /\ Run(s) /\ pc[s] \in StatesOf(kind[s]) /\ kind[s] \in Kinds
    BY <1>4, RunFrames DEF Crash, Shape, Typed, TypeOK
  <2>2. ~overlapped[d] /\ crashed = {} /\ kind[r] = "clean"
    BY <2>1 DEF RunFrame
  <2>3. r \in Requests /\ target[r] = d /\ RequestShape(r)
    BY <2>1, <2>2, NextShape, RunsAndDocs DEF Shape, RequestShape, UploadShape, RunFrame
  <2>4. CASE s = r
    <3>1. WipeRows(r) /\ doc[r] = d
      BY <2>1, <2>2, <2>4 DEF Run, StartIndex, TakeDocument, StartRecover, StartRetry, StartClean,
         ClearSegments, Reload, CleanIndex, CleanIndexFails, CleanRows, SetParsing, UpdateStatus,
         Check, Update, AddSegment, MarkSegments, Chunk, ChunkChecks, ChunkIsStored, ChunkFails,
         ChunkCompletes, Step, Join, KeywordsAreStored, KeywordsComplete, KeywordThreadRaises,
         Loaded, RunFails, HandleError, IsPaused, RetryError, DeleteRetryKey, WipeIndex, WipeRows,
         Move, StatesOf, OnDocument, Typed, TypeOK
    <3>2. index[d] = {}
      BY <2>2, <3>1 DEF OrderlyInv, Stage, WipeRows, Move
    <3>3. SegmentsOf(d)' = {} /\ index'[d] = index[d]
      BY <3>1 DEF WipeRows, WithoutSegments, ToWipe, SegmentsOf, Typed, TypeOK
    <3> QED
      BY <3>2, <3>3 DEF Empty
  <2>5. CASE s # r
    <3>1. Empty(d)
      BY <2>1, <2>2, <2>5 DEF WipedInv, RunFrame
    <3>2. CASE ~AtWork(s, d)
      BY <2>1, <3>1, <3>2 DEF RunFrame, AtWork, Empty, SegmentsOf
    <3>3. CASE AtWork(s, d)
      <4>1. kind[s] = "clean"
        <5>1. CASE step[r] = "delete"
          <6>1. Acts(r, d) /\ Acts(s, d)
            BY <2>3, <3>3, <5>1 DEF Acts, Strong
          <6> QED
            BY <2>2, <2>5, <6>1 DEF Alone
        <5>2. CASE status[d] = "gone"
          BY <2>2, <3>3, <5>2 DEF Alone, Acts
        <5> QED
          BY <2>2, <2>3, <5>1, <5>2 DEF RequestShape
      <4>2. StartClean(s) \/ WipeIndex(s) \/ WipeRows(s)
        BY <2>1, <4>1 DEF Run, StartIndex, TakeDocument, StartRecover, StartRetry,
         ClearSegments, Reload, CleanIndex, CleanIndexFails, CleanRows, SetParsing, UpdateStatus,
         Check, Update, AddSegment, MarkSegments, Chunk, ChunkChecks, ChunkIsStored, ChunkFails,
         ChunkCompletes, Step, Join, KeywordsAreStored, KeywordsComplete, KeywordThreadRaises,
         Loaded, RunFails, HandleError, IsPaused, RetryError, DeleteRetryKey,
         Move, StatesOf, OnDocument
      <4>3. index'[d] \subseteq index[d] /\ SegmentsOf(d)' \subseteq SegmentsOf(d)
        BY <4>2 DEF StartClean, WipeIndex, WipeRows, WithoutSegments, SegmentsOf, data, Typed, TypeOK
      <4> QED
        BY <3>1, <4>3 DEF Empty
    <3> QED
      BY <3>2, <3>3
  <2> QED
    BY <2>4, <2>5
<1> QED
  BY <1>1, <1>2, <1>3, <1>4, Steps

(***************************************************************************)
(* A document that was at rest when it was deleted leaves nothing behind,  *)
(* neither rows nor index, once its cleaning task is done and unless a     *)
(* worker died.                                                            *)
(***************************************************************************)
THEOREM DeletionsClean == Safety => []DeletionCleans
<1> DEFINE Inv == Typed /\ Shape /\ Held /\ \A d \in Docs : Alone(d) /\ OrderlyInv(d) /\ WipedInv(d)
<1>1. Init => Inv
  BY InitTyped, InitShape, InitHeld, InitAlone, InitOrderly, InitWiped
<1>2. Inv /\ [Next]_vars => Inv'
  BY NextTyped, NextShape, NextHeld, NextAlone, NextOrderly, NextWiped
<1>3. Inv => DeletionCleans
  <2> SUFFICES ASSUME Inv, crashed = {}, NEW r \in Runs, kind[r] = "clean", pc[r] = "done",
                      ~overlapped[doc[r]]
               PROVE  SegmentsOf(doc[r]) = {} /\ index[doc[r]] = {}
    BY DEF DeletionCleans
  <2>1. doc[r] \in Docs
    BY RunsAndDocs DEF Shape, RequestShape, UploadShape, BeforeTask
  <2> QED
    BY <2>1 DEF WipedInv, Empty
<1> QED
  BY <1>1, <1>2, <1>3, PTL DEF Safety
=============================================================================
