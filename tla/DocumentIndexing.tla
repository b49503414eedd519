-------------------------- MODULE DocumentIndexing --------------------------
(***************************************************************************)
(* The life of the documents of one upload in a knowledge base: the Celery *)
(* tasks that extract, split and index them (IndexingRunner and the tasks  *)
(* that call it) and the requests that pause, recover, retry and delete    *)
(* them meanwhile (DocumentService).  Tasks and requests share the rows of *)
(* the documents and of their segments, the vector or keyword index and    *)
(* two Redis keys per document, and no lock: every database commit, Redis  *)
(* command and call to the index is a step of its own.                     *)
(*                                                                         *)
(* A run is the execution of one task.  The identifiers of segments are    *)
(* uuids made by the run that splits the document, so a segment is         *)
(* identified here by this run and the chunk it holds.                     *)
(***************************************************************************)
EXTENDS Naturals, FiniteSets

CONSTANTS
  Docs,        \* the documents of the upload
  Chunks,      \* the chunks each of them splits into
  Requests,    \* the requests users make; each may start one task
  Upload,      \* the task the upload itself has started
  NoDoc,
  Techniques,  \* the values of Dataset.indexing_technique
  MayFail,     \* whether extraction, embedding, or the plan's limits may fail
  MaxCrashes   \* bound on the kinds of tasks whose worker dies

ASSUME IndexingAssumption ==
  /\ NoDoc \notin Docs
  /\ Upload \notin Requests
  /\ Techniques \subseteq {"high_quality", "economy"}
  /\ MayFail \in BOOLEAN
  /\ MaxCrashes \in Nat

Runs == Requests \union {Upload}
Nodes == Runs \X Chunks
Kinds == {"none", "index", "recover", "retry", "clean"}

VARIABLES
  technique,   \* dataset.indexing_technique
  status,      \* document.indexing_status, or "gone" when the row is
  isPaused,    \* document.is_paused
  pausedKey,   \* the Redis key document_{id}_is_paused
  retryKey,    \* the Redis key document_{id}_is_retried
  segment,     \* the rows of document_segments, by document and node
  index,       \* the nodes in the vector or keyword index, by document
  step,        \* where each request is
  target,      \* the document a request is about
  kind,        \* the task each run executes
  pc,          \* where each run is
  doc,         \* the document it is at
  todo,        \* the documents of its batch it has still to take
  nodes,       \* the nodes it has read or added, to clean or to load
  thread,      \* the state of its _process_chunk threads, by node
  overlapped,  \* history: recovered, retried or deleted while at work
  advanced,    \* history: status steps since the document was paused
  dropped,     \* history: documents a batch left when another was paused
  crashed      \* history: the kinds of tasks whose worker died

rows == <<technique, status, isPaused>>
keys == <<pausedKey, retryKey>>
data == <<segment, index>>
requests == <<step, target>>
runs == <<kind, pc, doc, todo, nodes, thread>>
history == <<overlapped, advanced, dropped, crashed>>
vars == <<rows, keys, data, requests, runs, history>>

Unfinished == {"waiting", "parsing", "splitting", "indexing"}
Statuses == Unfinished \union {"completed", "error", "gone"}
SegmentStates == {"none", "waiting", "indexing", "completed"}
ThreadStates == {"out", "todo", "checked", "stored", "done", "stopped", "failed"}

Exists(d) == status[d] # "gone"
SegmentsOf(d) == {n \in Nodes : segment[d][n] # "none"}

Init ==
  /\ technique \in Techniques
  /\ status = [d \in Docs |-> "waiting"]
  /\ isPaused = [d \in Docs |-> FALSE]
  /\ pausedKey = [d \in Docs |-> FALSE]
  /\ retryKey = [d \in Docs |-> FALSE]
  /\ segment = [d \in Docs |-> [n \in Nodes |-> "none"]]
  /\ index = [d \in Docs |-> {}]
  /\ step = [q \in Requests |-> "new"]
  /\ target = [q \in Requests |-> NoDoc]
  /\ kind = [r \in Runs |-> IF r = Upload THEN "index" ELSE "none"]
  /\ pc = [r \in Runs |-> IF r = Upload THEN "queued" ELSE "none"]
  /\ doc = [r \in Runs |-> NoDoc]
  /\ todo = [r \in Runs |-> IF r = Upload THEN Docs ELSE {}]
  /\ nodes = [r \in Runs |-> {}]
  /\ thread = [r \in Runs |-> [n \in Nodes |-> "out"]]
  /\ overlapped = [d \in Docs |-> FALSE]
  /\ advanced = [d \in Docs |-> 0]
  /\ dropped = {}
  /\ crashed = {}

-----------------------------------------------------------------------------
(***************************************************************************)
(* Nobody is at work on a document: no run has it, no request about it is  *)
(* under way.  The code never asks this; a user who looks at the progress  *)
(* before the next request does.                                           *)
(***************************************************************************)
AtWork(r, d) == pc[r] \notin {"none", "done"} /\ (doc[r] = d \/ d \in todo[r])
Asking(q, d) == target[q] = d /\ step[q] \notin {"new", "done"}
Quiet(d) == ~(\E r \in Runs : AtWork(r, d)) /\ ~(\E q \in Requests : Asking(q, d))

(* Requests: the check on the loaded document, then each write *)

Ask(q, d, next) ==
  /\ step[q] = "new"
  /\ Exists(d)
  /\ step' = [step EXCEPT ![q] = next]
  /\ target' = [target EXCEPT ![q] = d]

NoteOverlap(d) == overlapped' = [overlapped EXCEPT ![d] = @ \/ ~Quiet(d)]

GoOn(q, from, next) ==
  /\ step[q] = from
  /\ step' = [step EXCEPT ![q] = next]
  /\ UNCHANGED target

(***************************************************************************)
(* A commit about a row that is gone raises and ends the request.          *)
(***************************************************************************)
Commit(q, from, next) ==
  GoOn(q, from, IF Exists(target[q]) THEN next ELSE "done")

Start(r, k, d) ==
  /\ kind' = [kind EXCEPT ![r] = k]
  /\ pc' = [pc EXCEPT ![r] = "queued"]
  /\ todo' = [todo EXCEPT ![r] = {d}]
  /\ UNCHANGED <<doc, nodes, thread>>

AskPause(q, d) ==
  /\ status[d] \in Unfinished
  /\ Ask(q, d, "pause")
  /\ UNCHANGED <<rows, keys, data, runs, history>>

CommitPause(q) ==
  /\ Commit(q, "pause", "pauseKey")
  /\ IF Exists(target[q])
     THEN /\ isPaused' = [isPaused EXCEPT ![target[q]] = TRUE]
          /\ advanced' = [advanced EXCEPT ![target[q]] = 0]
     ELSE UNCHANGED <<isPaused, advanced>>
  /\ UNCHANGED <<technique, status, keys, data, runs, overlapped, dropped, crashed>>

SetPausedKey(q) ==
  /\ GoOn(q, "pauseKey", "done")
  /\ pausedKey' = [pausedKey EXCEPT ![target[q]] = TRUE]
  /\ UNCHANGED <<rows, retryKey, data, runs, history>>

AskRecover(q, d) ==
  /\ isPaused[d]
  /\ Ask(q, d, "recover")
  /\ NoteOverlap(d)
  /\ UNCHANGED <<rows, keys, data, runs, advanced, dropped, crashed>>

CommitRecover(q) ==
  /\ Commit(q, "recover", "recoverKey")
  /\ IF Exists(target[q])
     THEN isPaused' = [isPaused EXCEPT ![target[q]] = FALSE]
     ELSE UNCHANGED isPaused
  /\ UNCHANGED <<technique, status, keys, data, runs, history>>

(***************************************************************************)
(* A name with an ending after "_" is a mistake that a property must catch.*)
(***************************************************************************)
KeyAfterRecover_Kept(d) == pausedKey[d]
KeyAfterRecover(d) == FALSE

DeletePausedKey(q) ==
  /\ GoOn(q, "recoverKey", "recoverTask")
  /\ pausedKey' = [pausedKey EXCEPT ![target[q]] = KeyAfterRecover(target[q])]
  /\ UNCHANGED <<rows, retryKey, data, runs, history>>

SendRecover(q) ==
  /\ GoOn(q, "recoverTask", "done")
  /\ Start(q, "recover", target[q])
  /\ UNCHANGED <<rows, keys, data, history>>

(***************************************************************************)
(* The controller refuses a completed document, and retry_document one     *)
(* whose retry key is set; a document that is being indexed is accepted.   *)
(***************************************************************************)
AskRetry(q, d) ==
  /\ status[d] # "completed"
  /\ ~retryKey[d]
  /\ Ask(q, d, "retry")
  /\ NoteOverlap(d)
  /\ UNCHANGED <<rows, keys, data, runs, advanced, dropped, crashed>>

CommitRetry(q) ==
  /\ Commit(q, "retry", "retryKey")
  /\ IF Exists(target[q])
     THEN /\ status' = [status EXCEPT ![target[q]] = "waiting"]
          /\ advanced' = [advanced EXCEPT ![target[q]] = 0]
     ELSE UNCHANGED <<status, advanced>>
  /\ UNCHANGED <<technique, isPaused, keys, data, runs, overlapped, dropped, crashed>>

SetRetryKey(q) ==
  /\ GoOn(q, "retryKey", "retryTask")
  /\ retryKey' = [retryKey EXCEPT ![target[q]] = TRUE]
  /\ UNCHANGED <<rows, pausedKey, data, runs, history>>

SendRetry(q) ==
  /\ GoOn(q, "retryTask", "done")
  /\ Start(q, "retry", target[q])
  /\ UNCHANGED <<rows, keys, data, history>>

(***************************************************************************)
(* The 600 seconds of the retry key run out.                               *)
(***************************************************************************)
ExpireRetryKey(d) ==
  /\ retryKey[d]
  /\ retryKey' = [retryKey EXCEPT ![d] = FALSE]
  /\ UNCHANGED <<rows, pausedKey, data, requests, runs, history>>

(***************************************************************************)
(* delete_document sends the cleaning task and then removes the row.       *)
(***************************************************************************)
AskDelete(q, d) ==
  /\ Ask(q, d, "delete")
  /\ Start(q, "clean", d)
  /\ NoteOverlap(d)
  /\ UNCHANGED <<rows, keys, data, advanced, dropped, crashed>>

RemoveRow(q) ==
  /\ GoOn(q, "delete", "done")
  /\ status' = [status EXCEPT ![target[q]] = "gone"]
  /\ isPaused' = [isPaused EXCEPT ![target[q]] = FALSE]
  /\ UNCHANGED <<technique, keys, data, runs, history>>

-----------------------------------------------------------------------------
(* Runs: where a document leads *)

Move(r, from, next) == pc[r] = from /\ pc' = [pc EXCEPT ![r] = next]

AfterDocument(r) ==
  CASE kind[r] = "index" -> "next"
    [] kind[r] = "recover" -> "done"
    [] OTHER -> "unkey"

Write(ds, new) ==
  /\ status' = [d \in Docs |-> IF d \in ds /\ Exists(d) THEN new ELSE status[d]]
  /\ UNCHANGED <<technique, isPaused>>

(***************************************************************************)
(* A run takes documents a status further; history counts it when they are *)
(* paused.  What fails or is retried is not a step further.                *)
(***************************************************************************)
Advance(ds, new) ==
  /\ Write(ds, new)
  /\ advanced' = [d \in Docs |->
       IF d \in ds /\ isPaused[d] /\ advanced[d] < 2 THEN advanced[d] + 1 ELSE advanced[d]]
  /\ UNCHANGED <<overlapped, dropped, crashed>>

(***************************************************************************)
(* _document_indexing: the limits of the plan, then one commit that marks  *)
(* the whole batch, then the documents one after the other.                *)
(***************************************************************************)
StartIndex(r) ==
  /\ kind[r] = "index"
  /\ todo' = [todo EXCEPT ![r] = {d \in @ : Exists(d)}]
  /\ \/ Move(r, "queued", "next") /\ Advance(todo[r], "parsing")
     \/ MayFail /\ Move(r, "queued", "done") /\ Write(todo[r], "error") /\ UNCHANGED history
  /\ UNCHANGED <<keys, data, requests, kind, doc, nodes, thread>>

TakeDocument(r) ==
  /\ \/ /\ todo[r] = {}
        /\ Move(r, "next", "done")
        /\ UNCHANGED <<doc, todo>>
     \/ \E d \in todo[r] :
          /\ Move(r, "next", IF Exists(d) THEN "extract" ELSE "next")
          /\ doc' = [doc EXCEPT ![r] = d]
          /\ todo' = [todo EXCEPT ![r] = @ \ {d}]
  /\ UNCHANGED <<rows, keys, data, requests, kind, nodes, thread, history>>

(***************************************************************************)
(* recover_document_indexing_task goes on from the status it finds.        *)
(***************************************************************************)
Resume(d) ==
  CASE status[d] \in {"waiting", "parsing"} -> "extract"
    [] status[d] = "splitting" -> "clear"
    [] status[d] = "indexing" -> "reload"
    [] OTHER -> "done"

StartRecover(r) ==
  /\ kind[r] = "recover"
  /\ \E d \in todo[r] :
       /\ Move(r, "queued", Resume(d))
       /\ doc' = [doc EXCEPT ![r] = d]
  /\ todo' = [todo EXCEPT ![r] = {}]
  /\ UNCHANGED <<rows, keys, data, requests, kind, nodes, thread, history>>

WithoutSegments(d, ns) ==
  segment' = [segment EXCEPT ![d] = [n \in Nodes |-> IF n \in ns THEN "none" ELSE @[n]]]

ToClear_None(d) == {}
ToClear(d) == SegmentsOf(d)

(***************************************************************************)
(* run_in_splitting_status deletes the segments it finds.                  *)
(***************************************************************************)
ClearSegments(r) ==
  /\ Move(r, "clear", "extract")
  /\ WithoutSegments(doc[r], ToClear(doc[r]))
  /\ UNCHANGED <<rows, keys, index, requests, kind, doc, todo, nodes, thread, history>>

Load(r, ns) ==
  /\ nodes' = [nodes EXCEPT ![r] = ns]
  /\ thread' = [thread EXCEPT ![r] = [n \in Nodes |-> IF n \in ns THEN "todo" ELSE "out"]]

Unindexed_Waiting(d) == {n \in Nodes : segment[d][n] = "waiting"}
Unindexed(d) == {n \in SegmentsOf(d) : segment[d][n] # "completed"}

(***************************************************************************)
(* run_in_indexing_status loads what is not completed.                     *)
(***************************************************************************)
Reload(r) ==
  /\ Move(r, "reload", "load")
  /\ Load(r, Unindexed(doc[r]))
  /\ UNCHANGED <<rows, keys, data, requests, kind, doc, todo, history>>

(***************************************************************************)
(* retry_document_indexing_task cleans the index, then the rows, and then  *)
(* runs the document anew.                                                 *)
(***************************************************************************)
StartRetry(r) ==
  /\ kind[r] = "retry"
  /\ \E d \in todo[r] :
       /\ doc' = [doc EXCEPT ![r] = d]
       /\ \/ MayFail /\ Move(r, "queued", "unkey") /\ Write({d}, "error") /\ UNCHANGED nodes
          \/ /\ Move(r, "queued", IF Exists(d) THEN "cleanIndex" ELSE "done")
             /\ nodes' = [nodes EXCEPT ![r] = SegmentsOf(d)]
             /\ UNCHANGED rows
  /\ todo' = [todo EXCEPT ![r] = {}]
  /\ UNCHANGED <<keys, data, requests, kind, thread, history>>

InIndexToClean_None(r) == {}
InIndexToClean(r) == nodes[r]

CleanIndex(r) ==
  /\ Move(r, "cleanIndex", "cleanRows")
  /\ index' = [index EXCEPT ![doc[r]] = @ \ InIndexToClean(r)]
  /\ UNCHANGED <<rows, keys, segment, requests, kind, doc, todo, nodes, thread, history>>

CleanIndexFails(r) ==
  /\ MayFail
  /\ Move(r, "cleanIndex", "retryError")
  /\ nodes' = [nodes EXCEPT ![r] = {}]
  /\ UNCHANGED <<rows, keys, data, requests, kind, doc, todo, thread, history>>

CleanRows(r) ==
  /\ Move(r, "cleanRows", "setParsing")
  /\ WithoutSegments(doc[r], nodes[r])
  /\ nodes' = [nodes EXCEPT ![r] = {}]
  /\ UNCHANGED <<rows, keys, index, requests, kind, doc, todo, thread, history>>

(***************************************************************************)
(* The update of a row that is gone raises, and so does its handler.       *)
(***************************************************************************)
SetParsing(r) ==
  /\ Move(r, "setParsing", IF Exists(doc[r]) THEN "extract" ELSE "done")
  /\ Advance({doc[r]}, "parsing")
  /\ UNCHANGED <<keys, data, requests, kind, doc, todo, nodes, thread>>

-----------------------------------------------------------------------------
(* Runs: IndexingRunner on one document *)

MayGoOn_Always(d) == TRUE
MayGoOn(d) == ~isPaused[d]

(***************************************************************************)
(* _update_document_index_status: the check, after what the status is to   *)
(* say was done (extracting, adding segments, loading) ...                 *)
(***************************************************************************)
Check(r, from, next) ==
  /\ Move(r, from,
       CASE ~MayGoOn(doc[r]) -> "paused"
         [] MayGoOn(doc[r]) /\ ~Exists(doc[r]) -> "error"
         [] OTHER -> next)
  /\ UNCHANGED <<rows, keys, data, requests, kind, doc, todo, nodes, thread, history>>

(***************************************************************************)
(* ... and then, in a later statement, the update.                         *)
(***************************************************************************)
Update(r, from, next, new) ==
  /\ Move(r, from, next)
  /\ Advance({doc[r]}, new)
  /\ UNCHANGED <<keys, data, requests, kind, doc, todo, nodes, thread>>

StatusOnceExtracted_Cleaning == "cleaning"
StatusOnceExtracted == "splitting"

(***************************************************************************)
(* add_documents goes once through the chunks and commits the segments one *)
(* by one; also those of a document that is gone.                          *)
(***************************************************************************)
Missing(r) == {c \in Chunks : <<r, c>> \notin nodes[r]}

AddSegment(r) ==
  /\ pc[r] = "add"
  /\ \E c \in Missing(r) :
       /\ segment' = [segment EXCEPT ![doc[r]][<<r, c>>] = "waiting"]
       /\ nodes' = [nodes EXCEPT ![r] = @ \union {<<r, c>>}]
  /\ UNCHANGED <<rows, keys, index, requests, kind, pc, doc, todo, thread, history>>

UpdateStatus(r) ==
  \/ Check(r, "extract", "setSplitting")
  \/ Update(r, "setSplitting", "add", StatusOnceExtracted)
  \/ Check(r, "add", "setIndexing") /\ Missing(r) = {}
  \/ Update(r, "setIndexing", "mark", "indexing")
  \/ Check(r, "checkCompleted", "setCompleted")
  \/ Update(r, "setCompleted", AfterDocument(r), "completed")

(***************************************************************************)
(* _update_segments_by_document takes every segment of the document.       *)
(***************************************************************************)
MarkSegments(r) ==
  /\ Move(r, "mark", "load")
  /\ segment' = [segment EXCEPT ![doc[r]] =
       [n \in Nodes |-> IF @[n] = "none" THEN "none" ELSE "indexing"]]
  /\ Load(r, {r} \X Chunks)
  /\ UNCHANGED <<rows, keys, index, requests, kind, doc, todo, history>>

-----------------------------------------------------------------------------
(* Runs: _load, with a thread for each chunk or one for the keywords *)

Step(r, n, from, next) ==
  /\ technique = "high_quality"
  /\ pc[r] = "load"
  /\ thread[r][n] = from
  /\ thread' = [thread EXCEPT ![r][n] = next]
  /\ UNCHANGED <<rows, keys, requests, kind, pc, doc, todo, nodes, history>>

ChunkChecks(r, n) ==
  /\ Step(r, n, "todo", IF pausedKey[doc[r]] THEN "stopped" ELSE "checked")
  /\ UNCHANGED data

ChunkIsStored(r, n) ==
  /\ Step(r, n, "checked", "stored")
  /\ index' = [index EXCEPT ![doc[r]] = @ \union {n}]
  /\ UNCHANGED segment

ChunkFails(r, n) ==
  /\ MayFail
  /\ \E from \in {"checked", "stored"} : Step(r, n, from, "failed")
  /\ UNCHANGED data

ToComplete_All(r, n) == {m \in Nodes : segment[doc[r]][m] = "indexing"}
ToComplete(r, n) == {n} \intersect {m \in Nodes : segment[doc[r]][m] = "indexing"}

ChunkCompletes(r, n) ==
  /\ Step(r, n, "stored", "done")
  /\ segment' = [segment EXCEPT ![doc[r]] =
       [m \in Nodes |-> IF m \in ToComplete(r, n) THEN "completed" ELSE @[m]]]
  /\ UNCHANGED index

Loaded(r, from, next) ==
  /\ Move(r, from, next)
  /\ nodes' = [nodes EXCEPT ![r] = {}]
  /\ thread' = [thread EXCEPT ![r] = [n \in Nodes |-> "out"]]
  /\ UNCHANGED <<rows, keys, requests, kind, doc, todo, history>>

(***************************************************************************)
(* All threads have ended; the first exception among the futures is raised.*)
(***************************************************************************)
Join(r) ==
  /\ technique = "high_quality"
  /\ \A n \in nodes[r] : thread[r][n] \in {"done", "stopped", "failed"}
  /\ \/ (\A n \in nodes[r] : thread[r][n] = "done") /\ Loaded(r, "load", "checkCompleted")
     \/ (\E n \in nodes[r] : thread[r][n] = "stopped") /\ Loaded(r, "load", "paused")
     \/ (\E n \in nodes[r] : thread[r][n] = "failed") /\ Loaded(r, "load", "error")
  /\ UNCHANGED data

(***************************************************************************)
(* The keyword thread saves the keyword table, then updates the segments,  *)
(* or raises at either: join() does not tell, and _load goes on.           *)
(***************************************************************************)
KeywordsAreStored(r) ==
  /\ technique = "economy"
  /\ Move(r, "load", "keywords")
  /\ index' = [index EXCEPT ![doc[r]] = @ \union nodes[r]]
  /\ UNCHANGED <<rows, keys, segment, requests, kind, doc, todo, nodes, thread, history>>

KeywordsComplete(r) ==
  /\ Loaded(r, "keywords", "checkCompleted")
  /\ segment' = [segment EXCEPT ![doc[r]] = [n \in Nodes |->
       IF n \in nodes[r] /\ @[n] = "indexing" THEN "completed" ELSE @[n]]]
  /\ UNCHANGED index

KeywordThreadRaises(r) ==
  /\ MayFail
  /\ technique = "economy"
  /\ \E from \in {"load", "keywords"} : Loaded(r, from, "checkCompleted")
  /\ UNCHANGED data

-----------------------------------------------------------------------------
(* Runs: how they end *)

(***************************************************************************)
(* An exception in extracting, splitting or adding segments.               *)
(***************************************************************************)
RunFails(r) ==
  /\ MayFail
  /\ pc[r] \in {"extract", "add", "reload"}
  /\ pc' = [pc EXCEPT ![r] = "error"]
  /\ UNCHANGED <<rows, keys, data, requests, kind, doc, todo, nodes, thread, history>>

HandleError(r) ==
  /\ Move(r, "error", AfterDocument(r))
  /\ Write({doc[r]}, "error")
  /\ nodes' = [nodes EXCEPT ![r] = {}]
  /\ UNCHANGED <<keys, data, requests, kind, doc, todo, thread, history>>

(***************************************************************************)
(* DocumentIsPausedError leaves the loop over the batch; the retry task    *)
(* handles it like any other exception.                                    *)
(***************************************************************************)
IsPaused(r) ==
  /\ Move(r, "paused", IF kind[r] = "retry" THEN "retryError" ELSE "done")
  /\ dropped' = dropped \union todo[r]
  /\ todo' = [todo EXCEPT ![r] = {}]
  /\ nodes' = [nodes EXCEPT ![r] = {}]
  /\ UNCHANGED <<rows, keys, data, requests, kind, doc, thread, overlapped, advanced, crashed>>

RetryError(r) ==
  /\ Move(r, "retryError", IF Exists(doc[r]) THEN "unkey" ELSE "done")
  /\ Write({doc[r]}, "error")
  /\ UNCHANGED <<keys, data, requests, kind, doc, todo, nodes, thread, history>>

DeleteRetryKey(r) ==
  /\ Move(r, "unkey", "done")
  /\ retryKey' = [retryKey EXCEPT ![doc[r]] = FALSE]
  /\ UNCHANGED <<rows, pausedKey, data, requests, kind, doc, todo, nodes, thread, history>>

(***************************************************************************)
(* clean_document_task reads the segments, then deletes their nodes from   *)
(* the index, then the rows of the document, those added since included.   *)
(***************************************************************************)
StartClean(r) ==
  /\ kind[r] = "clean"
  /\ Move(r, "queued", "wipeIndex")
  /\ \E d \in todo[r] :
       /\ doc' = [doc EXCEPT ![r] = d]
       /\ nodes' = [nodes EXCEPT ![r] = SegmentsOf(d)]
  /\ todo' = [todo EXCEPT ![r] = {}]
  /\ UNCHANGED <<rows, keys, data, requests, kind, thread, history>>

WipeIndex(r) ==
  /\ Move(r, "wipeIndex", "wipeRows")
  /\ index' = [index EXCEPT ![doc[r]] = @ \ nodes[r]]
  /\ UNCHANGED <<rows, keys, segment, requests, kind, doc, todo, nodes, thread, history>>

ToWipe_Read(r) == nodes[r] \intersect index[doc[r]]
ToWipe(r) == SegmentsOf(doc[r])

WipeRows(r) ==
  /\ Move(r, "wipeRows", "done")
  /\ WithoutSegments(doc[r], ToWipe(r))
  /\ nodes' = [nodes EXCEPT ![r] = {}]
  /\ UNCHANGED <<rows, keys, index, requests, kind, doc, todo, thread, history>>

(***************************************************************************)
(* The worker dies, and with it the task, which Celery has acknowledged;   *)
(* or, while it cleans the index for a deletion, an exception ends it.     *)
(***************************************************************************)
Crash(r) ==
  /\ pc[r] \notin {"none", "queued", "done"}
  /\ kind[r] \notin crashed
  /\ Cardinality(crashed) < MaxCrashes
  /\ crashed' = crashed \union {kind[r]}
  /\ pc' = [pc EXCEPT ![r] = "done"]
  /\ nodes' = [nodes EXCEPT ![r] = {}]
  /\ thread' = [thread EXCEPT ![r] = [n \in Nodes |-> "out"]]
  /\ UNCHANGED <<rows, keys, data, requests, kind, doc, todo, overlapped, advanced, dropped>>

-----------------------------------------------------------------------------
AskAbout(q, d) == AskPause(q, d) \/ AskRecover(q, d) \/ AskRetry(q, d) \/ AskDelete(q, d)

Request(q) ==
  \/ CommitPause(q) \/ SetPausedKey(q)
  \/ CommitRecover(q) \/ DeletePausedKey(q) \/ SendRecover(q)
  \/ CommitRetry(q) \/ SetRetryKey(q) \/ SendRetry(q)
  \/ RemoveRow(q)

Chunk(r) ==
  \E n \in Nodes : ChunkChecks(r, n) \/ ChunkIsStored(r, n) \/ ChunkFails(r, n) \/ ChunkCompletes(r, n)

Run(r) ==
  \/ StartIndex(r) \/ TakeDocument(r)
  \/ StartRecover(r) \/ ClearSegments(r) \/ Reload(r)
  \/ StartRetry(r) \/ CleanIndex(r) \/ CleanIndexFails(r) \/ CleanRows(r) \/ SetParsing(r)
  \/ UpdateStatus(r) \/ AddSegment(r) \/ MarkSegments(r)
  \/ Chunk(r) \/ Join(r)
  \/ KeywordsAreStored(r) \/ KeywordsComplete(r) \/ KeywordThreadRaises(r)
  \/ RunFails(r) \/ HandleError(r) \/ IsPaused(r) \/ RetryError(r) \/ DeleteRetryKey(r)
  \/ StartClean(r) \/ WipeIndex(r) \/ WipeRows(r)

Next ==
  \/ \E q \in Requests, d \in Docs : AskAbout(q, d)
  \/ \E q \in Requests : Request(q)
  \/ \E r \in Runs : Run(r)
  \/ \E r \in Runs : Crash(r)
  \/ \E d \in Docs : ExpireRetryKey(d)

(***************************************************************************)
(* A request that was made goes on, and workers take and execute tasks.    *)
(***************************************************************************)
Fairness ==
  /\ \A q \in Requests : WF_vars(Request(q))
  /\ \A r \in Runs : WF_vars(Run(r))

Safety == Init /\ [][Next]_vars
Spec == Safety /\ Fairness

-----------------------------------------------------------------------------
RunStates ==
  {"none", "queued", "next", "done", "clear", "reload", "cleanIndex", "cleanRows",
   "setParsing", "extract", "setSplitting", "add",
   "setIndexing", "mark", "load", "keywords", "checkCompleted", "setCompleted", "paused",
   "error", "retryError", "unkey", "wipeIndex", "wipeRows"}
RequestStates ==
  {"new", "pause", "pauseKey", "recover", "recoverKey", "recoverTask", "retry",
   "retryKey", "retryTask", "delete", "done"}

TypeOK ==
  /\ technique \in Techniques
  /\ status \in [Docs -> Statuses]
  /\ isPaused \in [Docs -> BOOLEAN]
  /\ pausedKey \in [Docs -> BOOLEAN]
  /\ retryKey \in [Docs -> BOOLEAN]
  /\ segment \in [Docs -> [Nodes -> SegmentStates]]
  /\ index \in [Docs -> SUBSET Nodes]
  /\ step \in [Requests -> RequestStates]
  /\ target \in [Requests -> Docs \union {NoDoc}]
  /\ kind \in [Runs -> Kinds]
  /\ pc \in [Runs -> RunStates]
  /\ doc \in [Runs -> Docs \union {NoDoc}]
  /\ todo \in [Runs -> SUBSET Docs]
  /\ nodes \in [Runs -> SUBSET Nodes]
  /\ thread \in [Runs -> [Nodes -> ThreadStates]]
  /\ overlapped \in [Docs -> BOOLEAN]
  /\ advanced \in [Docs -> 0..2]
  /\ dropped \in SUBSET Docs
  /\ crashed \in SUBSET Kinds

(***************************************************************************)
(* Whatever runs beside what: a segment shown as completed can be found in *)
(* the index, except while the retry or the deletion that has read it is   *)
(* between cleaning the index and cleaning the rows.                       *)
(***************************************************************************)
CompletedSegmentIsIndexed ==
  crashed = {} =>
    \A d \in Docs, n \in Nodes :
      segment[d][n] = "completed" =>
        n \in index[d] \/ \E r \in Runs : doc[r] = d /\ n \in nodes[r] /\ pc[r] \in {"cleanRows", "wipeRows"}

(***************************************************************************)
(* Through pauses, recoveries, failures, retries and dying workers, at     *)
(* whatever step, a document holds each of its chunks at most once.        *)
(***************************************************************************)
OneSegmentPerChunk ==
  \A d \in Docs : ~overlapped[d] /\ "retry" \notin crashed =>
    \A m, n \in SegmentsOf(d) : m[2] = n[2] => m = n

(***************************************************************************)
(* The index holds nothing that no segment accounts for.                   *)
(***************************************************************************)
NoOrphanInIndex ==
  \A d \in Docs : ~overlapped[d] /\ "retry" \notin crashed => index[d] \subseteq SegmentsOf(d)

(***************************************************************************)
(* A document indexed with embeddings is completed only with every chunk   *)
(* of it completed and in the index.                                       *)
(***************************************************************************)
Cleaned(d) == \E r \in Runs : kind[r] = "clean" /\ (doc[r] = d \/ d \in todo[r])
CompletedIsSearchable ==
  technique = "high_quality" /\ crashed = {} =>
    \A d \in Docs : status[d] = "completed" /\ ~overlapped[d] /\ ~Cleaned(d) =>
      \A c \in Chunks : \E r \in Runs : segment[d][<<r, c>>] = "completed" /\ <<r, c>> \in index[d]

(***************************************************************************)
(* A run takes a paused document at most one status further, the one whose *)
(* check came before the pause.                                            *)
(***************************************************************************)
PauseHolds == \A d \in Docs : ~overlapped[d] => advanced[d] <= 1

(***************************************************************************)
(* A document that was at rest when it was deleted leaves nothing behind.  *)
(***************************************************************************)
DeletionCleans ==
  crashed = {} =>
    \A r \in Runs : kind[r] = "clean" /\ pc[r] = "done" /\ ~overlapped[doc[r]] =>
      SegmentsOf(doc[r]) = {} /\ index[doc[r]] = {}

(***************************************************************************)
(* Indexing ends: a document comes to rest completed, failed, deleted or   *)
(* paused, unless a worker died or a paused document took its batch along. *)
(***************************************************************************)
IndexingEnds ==
  \A d \in Docs :
    (status[d] \in Unfinished)
      ~> (status[d] \notin Unfinished \/ isPaused[d] \/ overlapped[d]
            \/ d \in dropped \/ crashed # {})

-----------------------------------------------------------------------------
(***************************************************************************)
(* "insert index and update document/segment status to completed"          *)
(* (core/indexing_runner.py, _load): the segments of a document that is    *)
(* completed are completed.                                                *)
(***************************************************************************)
CompletedTogether ==
  \A d \in Docs : status[d] = "completed" =>
    \A n \in SegmentsOf(d) : segment[d][n] = "completed"
=============================================================================
