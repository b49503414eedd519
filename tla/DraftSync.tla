----------------------------- MODULE DraftSync ------------------------------
(***************************************************************************)
(* How the workflow editor keeps the draft on the server: edits are saved  *)
(* five seconds after the last one, or at once; the saves of a page go one *)
(* after the other, each with the hash of the content the page last saw on *)
(* the server, and the server refuses a save with another hash.  A refused *)
(* save, and a page that comes back to the foreground, refresh the draft;  *)
(* a page that goes to the background sends a save it never looks after.   *)
(*                                                                         *)
(* web/app/components/workflow-app/hooks/use-nodes-sync-draft.ts,          *)
(* use-workflow-refresh-draft.ts, workflow/hooks/use-nodes-sync-draft.ts,  *)
(* use-serial-async-callback.ts, workflow-draft-slice.ts and the handlers  *)
(* of workflow/index.tsx and workflow-app/index.tsx.                       *)
(*                                                                         *)
(* api/services/workflow_service.py (sync_draft_workflow) and              *)
(* models/workflow.py (unique_hash) are the other end.                     *)
(*                                                                         *)
(* The content of a draft is the set of edits made in it: of its graph, of *)
(* its features and of its conversation variables, each a column of the    *)
(* server's row.  The hash covers the first two, and is what they hold:    *)
(* two contents with one hash differ in variables only.  The environment   *)
(* variables, which a panel of their own writes back after each save, are  *)
(* left out.                                                               *)
(***************************************************************************)
EXTENDS Naturals, Sequences, FiniteSets, SequencesExt

CONSTANTS
  Tabs,          \* pages that have the editor of one workflow open
  EditsOf,       \* the edits the user of each page may make, in any order
  Features,      \* those of them that change the features
  Variables,     \* those of them that change a conversation variable
  Restless,      \* bound: the pages whose users turn away from them
  MaxEdits,      \* bound: how many of them the user of each page makes
  MaxQueue,      \* bound: saves waiting in a page
  MaxRefreshes,  \* bound: refreshes a page has at once
  MaxTrips,      \* bound: how often they do
  MaxFaults      \* bound: requests that fail

ASSUME EditsHaveOnePage ==
  \A t, u \in Tabs : t # u => EditsOf[t] \cap EditsOf[u] = {}
ASSUME EditsHaveOneColumn == Features \cap Variables = {}
ASSUME BoundsAreNumbers ==
  /\ MaxQueue \in Nat /\ MaxRefreshes \in Nat /\ MaxTrips \in Nat
  /\ MaxFaults \in Nat

VARIABLES
  shown,     \* "visible", "hidden" or "left": what the user does with a page
  canvas,    \* what a page holds: nodes and edges, features, variables
  hash,      \* syncWorkflowDraftHash
  loaded,    \* isWorkflowDataLoaded
  debounced, \* a call of debouncedSyncWorkflowDraft waits
  queue,     \* calls of performSync that wait for the one before them
  save,      \* the save that performSync has in flight
  beacon,    \* a save nobody waits for, in flight: the one sent by
             \* syncWorkflowDraftWhenPageClose, or one that has timed out
  refreshes, \* calls of handleRefreshWorkflowDraft, in flight
  draft,     \* the content of the draft on the server
  trips,     \* how often users turned away
  faults,    \* requests that failed so far
  made,      \* history: the edits made so far, each is made once
  dropped,   \* history: edits that a page has given up to save
  lost,      \* history: edits that were on the server and are not any more
  excuse,    \* history: what made the hash or the canvas of a page doubtful
  writers    \* history: the pages whose saves have been accepted

page   == <<shown, canvas, hash, loaded, debounced, queue>>
net    == <<save, beacon, refreshes>>
bounds == <<trips, faults>>
ghosts == <<made, dropped, lost, excuse, writers>>
vars   == <<page, net, draft, bounds, ghosts>>

(***************************************************************************)
(* Types                                                                   *)
(***************************************************************************)
Edits    == UNION {EditsOf[t] : t \in Tabs}
Graph    == Edits \ (Features \cup Variables)
Contents == SUBSET Edits
Stages   == {"none", "sent", "passed", "committed", "saved", "refused"}
Saves    == [stage : Stages, body : Contents, hash : Contents, quiet : BOOLEAN,
             base : Contents]
Excuses  == {"unanswered", "crossed", "kept", "overtaken"}
Refreshes == [stage : {"wanted", "sent", "read"}, keep : BOOLEAN,
              was : BOOLEAN, got : Contents]

NoSave == [stage |-> "none", body |-> {}, hash |-> {}, quiet |-> FALSE, base |-> {}]

\* unique_hash of a content.
Hash(content) == content \ Variables

TypeOK ==
  /\ shown \in [Tabs -> {"visible", "hidden", "left"}]
  /\ canvas \in [Tabs -> Contents] /\ hash \in [Tabs -> Contents]
  /\ loaded \in [Tabs -> BOOLEAN] /\ debounced \in [Tabs -> BOOLEAN]
  /\ queue \in [Tabs -> Seq(BOOLEAN)]
  /\ save \in [Tabs -> Saves] /\ beacon \in [Tabs -> Saves]
  /\ refreshes \in [Tabs -> Seq(Refreshes)]
  /\ draft \in Contents
  /\ trips \in 0..MaxTrips /\ faults \in 0..MaxFaults
  /\ made \in Contents /\ dropped \in Contents /\ lost \in Contents
  /\ excuse \in [Tabs -> SUBSET Excuses]
  /\ writers \subseteq Tabs

Init ==
  /\ shown = [t \in Tabs |-> "visible"]
  /\ canvas = [t \in Tabs |-> {}] /\ hash = [t \in Tabs |-> {}]
  /\ loaded = [t \in Tabs |-> TRUE]
  /\ debounced = [t \in Tabs |-> FALSE]
  /\ queue = [t \in Tabs |-> <<>>]
  /\ save = [t \in Tabs |-> NoSave] /\ beacon = [t \in Tabs |-> NoSave]
  /\ refreshes = [t \in Tabs |-> <<>>]
  /\ draft = {}
  /\ trips = 0 /\ faults = 0
  /\ made = {} /\ dropped = {} /\ lost = {} /\ writers = {}
  /\ excuse = [t \in Tabs |-> {}]

(***************************************************************************)
(* The user edits; the edit asks for a save in five seconds or for one at  *)
(* once, which may be quiet: not followed by a refresh when it is refused. *)
(* The features panel waits, the panel of the variables does not and is    *)
(* not quiet.  An edit is not stopped by a refresh that is under way.      *)
(***************************************************************************)
Edit(t, e) ==
  /\ shown[t] = "visible" /\ e \in EditsOf[t] \ made
  /\ Cardinality(made \cap EditsOf[t]) < MaxEdits[t]
  /\ made' = made \cup {e}
  /\ canvas' = [canvas EXCEPT ![t] = @ \cup {e}]
  /\ \/ /\ e \notin Variables
        /\ debounced' = [debounced EXCEPT ![t] = TRUE]
        /\ UNCHANGED queue
     \/ /\ e \notin Features /\ Len(queue[t]) < MaxQueue
        /\ \E quiet \in BOOLEAN :
             /\ quiet => e \notin Variables
             /\ queue' = [queue EXCEPT ![t] = Append(@, quiet)]
        /\ UNCHANGED debounced
  /\ UNCHANGED <<shown, hash, loaded, net, draft, bounds, dropped, lost,
                 excuse, writers>>

DebounceFires_Idle(t) ==
  /\ debounced[t] /\ Len(queue[t]) < MaxQueue
  /\ debounced' = [debounced EXCEPT ![t] = FALSE]
  /\ queue' = [queue EXCEPT ![t] = IF save[t].stage = "none" THEN Append(@, FALSE) ELSE @]
  /\ UNCHANGED <<shown, canvas, hash, loaded, net, draft, bounds, ghosts>>

DebounceFires(t) ==
  /\ debounced[t] /\ Len(queue[t]) < MaxQueue
  /\ debounced' = [debounced EXCEPT ![t] = FALSE]
  /\ queue' = [queue EXCEPT ![t] = Append(@, FALSE)]
  /\ UNCHANGED <<shown, canvas, hash, loaded, net, draft, bounds, ghosts>>

(***************************************************************************)
(* performSync, when the call before it has ended: getPostParams gives     *)
(* nothing while the draft is not loaded, and the call ends; otherwise the *)
(* canvas goes out with the hash of the moment.                            *)
(***************************************************************************)
Message(t, quiet) == [stage |-> "sent", body |-> canvas[t], hash |-> hash[t],
                      quiet |-> quiet, base |-> {}]

MaySync_AtOnce(t) == queue[t] # <<>>
MaySync(t) == queue[t] # <<>> /\ save[t].stage = "none"

Unsaved(t) == (canvas[t] \cap EditsOf[t]) \ draft

Overlaps(t) == \E i \in DOMAIN refreshes'[t] :
                 refreshes'[t][i].stage # "wanted" /\ save'[t].stage # "none"

PerformSync(t) ==
  /\ MaySync(t)
  /\ queue' = [queue EXCEPT ![t] = Tail(@)]
  /\ IF loaded[t]
     THEN /\ save' = [save EXCEPT ![t] = Message(t, Head(queue[t]))]
          /\ UNCHANGED dropped
     ELSE /\ dropped' = dropped \cup Unsaved(t)
          /\ UNCHANGED save
  /\ UNCHANGED refreshes
  /\ excuse' = [excuse EXCEPT ![t] = IF Overlaps(t) THEN @ \cup {"crossed"} ELSE @]
  /\ UNCHANGED <<shown, canvas, hash, loaded, debounced, beacon,
                 draft, bounds, made, lost, writers>>

(***************************************************************************)
(* The server reads the draft, compares the hash and then commits, without *)
(* a lock between; base is the draft it read, as the commit writes only    *)
(* the columns that differ from it.  The answer carries the hash of what   *)
(* the draft holds after the commit, which is read again for it.  m is the *)
(* message before and after.                                               *)
(***************************************************************************)
Checked_Never(m) == [m EXCEPT !.stage = "passed", !.base = draft]
Checked(m) == IF m.hash = Hash(draft)
              THEN [m EXCEPT !.stage = "passed", !.base = draft]
              ELSE [m EXCEPT !.stage = "refused"]

ServerChecks(t) ==
  /\ \/ /\ save[t].stage = "sent"
        /\ save' = [save EXCEPT ![t] = Checked(@)]
        /\ UNCHANGED beacon
     \/ /\ beacon[t].stage = "sent"
        /\ beacon' = [beacon EXCEPT ![t] = IF Checked(@).stage = "passed" THEN Checked(@) ELSE NoSave]
        /\ UNCHANGED save
  /\ UNCHANGED <<page, refreshes, draft, bounds, ghosts>>

Column(m, part) == (IF m.body \cap part = m.base \cap part THEN draft ELSE m.body) \cap part

Committed(m) ==
  /\ m.stage = "passed"
  /\ draft' = Column(m, Graph) \cup Column(m, Features) \cup Column(m, Variables)
  /\ lost' = lost \cup (draft \ draft')

ServerCommits(t) ==
  /\ \/ /\ Committed(save[t])
        /\ save' = [save EXCEPT ![t] = [@ EXCEPT !.stage = "committed", !.base = {}]]
        /\ UNCHANGED beacon
     \/ /\ Committed(beacon[t])
        /\ beacon' = [beacon EXCEPT ![t] = NoSave]
        /\ UNCHANGED save
  /\ writers' = writers \cup {t}
  /\ UNCHANGED <<page, refreshes, bounds, made, dropped, excuse>>

\* A hash names a content: the page that takes it lacks some of the content.
Lacks(content, named) == ~(Hash(named) \subseteq content)

ServerAnswers(t) ==
  /\ save[t].stage = "committed"
  /\ save' = [save EXCEPT ![t] = [@ EXCEPT !.stage = "saved", !.hash = Hash(draft)]]
  /\ excuse' = [excuse EXCEPT ![t] = IF Lacks(save[t].body, draft) THEN @ \cup {"overtaken"} ELSE @]
  /\ UNCHANGED <<page, beacon, refreshes, draft, bounds, made, dropped, lost, writers>>

(***************************************************************************)
(* The answers of a save.  The refresh after a refusal starts when the     *)
(* body of the answer has been read: the next save may go out before it.   *)
(***************************************************************************)
Wanted(keep) == [stage |-> "wanted", keep |-> keep, was |-> FALSE, got |-> {}]

SaveAnswered(t) ==
  /\ save[t].stage = "saved"
  /\ hash' = [hash EXCEPT ![t] = save[t].hash]
  /\ save' = [save EXCEPT ![t] = NoSave]
  /\ UNCHANGED <<shown, canvas, loaded, debounced, queue, beacon,
                 refreshes, draft, bounds, ghosts>>

SaveRefused(t) ==
  /\ save[t].stage = "refused"
  /\ save' = [save EXCEPT ![t] = NoSave]
  /\ IF save[t].quiet
     THEN UNCHANGED refreshes
     ELSE /\ Len(refreshes[t]) < MaxRefreshes
          /\ refreshes' = [refreshes EXCEPT ![t] = Append(@, Wanted(TRUE))]
  /\ dropped' = dropped \cup Unsaved(t)
  /\ UNCHANGED <<page, beacon, draft, bounds, made, lost, excuse, writers>>

\* A save that fails has not reached the server, or its answer is lost, or it has
\* timed out and the server is still to handle it.
SaveFails(t) ==
  /\ faults < MaxFaults
  /\ faults' = faults + 1
  /\ \/ /\ save[t].stage \in {"sent", "committed", "saved"}
        /\ UNCHANGED beacon
     \/ /\ save[t].stage \in {"sent", "passed"}
        /\ beacon[t].stage = "none" \* bound: one such save at a time
        /\ beacon' = [beacon EXCEPT ![t] = save[t]]
  /\ save' = [save EXCEPT ![t] = NoSave]
  /\ dropped' = dropped \cup Unsaved(t)
  /\ excuse' = [excuse EXCEPT ![t] = @ \cup {"unanswered"}]
  /\ UNCHANGED <<page, refreshes, draft, trips, made, lost, writers>>

(***************************************************************************)
(* handleRefreshWorkflowDraft cancels the debounced save, closes the draft *)
(* for saves and asks for it; the answer opens it again, with the          *)
(* variables of the server, with its graph unless the canvas is kept, and  *)
(* always with the features of the page.  A refresh that found the draft   *)
(* closed does not open it when it fails.                                  *)
(***************************************************************************)
RefreshStarts(t, i) ==
  /\ refreshes[t][i].stage = "wanted"
  /\ refreshes' = [refreshes EXCEPT ![t][i] = [@ EXCEPT !.stage = "sent", !.was = loaded[t]]]
  /\ debounced' = [debounced EXCEPT ![t] = FALSE]
  /\ loaded' = [loaded EXCEPT ![t] = FALSE]
  /\ dropped' = IF debounced[t] THEN dropped \cup Unsaved(t) ELSE dropped
  /\ UNCHANGED save
  /\ excuse' = [excuse EXCEPT ![t] = IF Overlaps(t) THEN @ \cup {"crossed"} ELSE @]
  /\ UNCHANGED <<shown, canvas, hash, queue, beacon, draft, bounds, made, lost,
                 writers>>

ServerReads(t, i) ==
  /\ refreshes[t][i].stage = "sent"
  /\ refreshes' = [refreshes EXCEPT ![t][i] = [@ EXCEPT !.stage = "read", !.got = draft]]
  /\ UNCHANGED <<page, save, beacon, draft, bounds, ghosts>>

CanvasAfter(t, r) ==
  ((IF r.keep THEN canvas[t] ELSE r.got) \cap Graph)
    \cup (canvas[t] \cap Features) \cup (r.got \cap Variables)

RefreshAnswered(t, i) ==
  LET r == refreshes[t][i] IN
  /\ r.stage = "read"
  /\ refreshes' = [refreshes EXCEPT ![t] = RemoveAt(@, i)]
  /\ canvas' = [canvas EXCEPT ![t] = CanvasAfter(t, r)]
  /\ hash' = [hash EXCEPT ![t] = Hash(r.got)]
  /\ loaded' = [loaded EXCEPT ![t] = TRUE]
  /\ dropped' = dropped \cup (Unsaved(t) \ canvas'[t])
  /\ excuse' = [excuse EXCEPT ![t] = IF Lacks(canvas'[t], r.got) THEN @ \cup {"kept"} ELSE @]
  /\ UNCHANGED <<shown, debounced, queue, save, beacon, draft, bounds, made, lost,
                 writers>>

LoadedAfterFailure_Never(t, r) == loaded[t]
LoadedAfterFailure(t, r) == loaded[t] \/ r.was

RefreshFails(t, i) ==
  /\ refreshes[t][i].stage \in {"sent", "read"} /\ faults < MaxFaults
  /\ faults' = faults + 1
  /\ refreshes' = [refreshes EXCEPT ![t] = RemoveAt(@, i)]
  /\ loaded' = [loaded EXCEPT ![t] = LoadedAfterFailure(t, refreshes[t][i])]
  /\ UNCHANGED <<shown, canvas, hash, debounced, queue, save, beacon,
                 draft, trips, ghosts>>

(***************************************************************************)
(* A page that goes to the background sends its canvas and forgets about   *)
(* it; when it comes back it refreshes after half a second, unless a run   *)
(* is under way.                                                           *)
(***************************************************************************)
Hide(t) ==
  /\ shown[t] = "visible" /\ t \in Restless /\ trips < MaxTrips
  /\ trips' = trips + 1
  /\ shown' = [shown EXCEPT ![t] = "hidden"]
  /\ IF loaded[t]
     THEN /\ beacon[t].stage = "none" \* bound: one such save at a time
          /\ beacon' = [beacon EXCEPT ![t] = Message(t, TRUE)]
          /\ excuse' = [excuse EXCEPT ![t] = @ \cup {"unanswered"}]
     ELSE UNCHANGED <<beacon, excuse>>
  /\ UNCHANGED <<canvas, hash, loaded, debounced, queue, save, refreshes,
                 draft, faults, made, dropped, lost, writers>>

Show(t) ==
  /\ shown[t] = "hidden"
  /\ shown' = [shown EXCEPT ![t] = "visible"]
  /\ \/ /\ Len(refreshes[t]) < MaxRefreshes
        /\ refreshes' = [refreshes EXCEPT ![t] = Append(@, Wanted(FALSE))]
     \/ UNCHANGED refreshes
  /\ UNCHANGED <<canvas, hash, loaded, debounced, queue, save, beacon, draft,
                 bounds, ghosts>>

(***************************************************************************)
(* Leaving the editor: the handler of workflow-app closes the draft and    *)
(* cancels the debounced save, the one of workflow asks for a save, which  *)
(* finds the draft closed.                                                 *)
(***************************************************************************)
Leave(t) ==
  /\ shown[t] = "visible" /\ t \in Restless /\ trips < MaxTrips
  /\ Len(queue[t]) < MaxQueue
  /\ trips' = trips + 1
  /\ shown' = [shown EXCEPT ![t] = "left"]
  /\ loaded' = [loaded EXCEPT ![t] = FALSE]
  /\ debounced' = [debounced EXCEPT ![t] = FALSE]
  /\ queue' = [queue EXCEPT ![t] = Append(@, TRUE)]
  /\ UNCHANGED <<canvas, hash, net, draft, faults, ghosts>>

Next ==
  \E t \in Tabs :
    \/ \E e \in Edits : Edit(t, e)
    \/ DebounceFires(t) \/ PerformSync(t)
    \/ ServerChecks(t) \/ ServerCommits(t) \/ ServerAnswers(t)
    \/ SaveAnswered(t) \/ SaveRefused(t) \/ SaveFails(t)
    \/ \E i \in DOMAIN refreshes[t] :
         \/ RefreshStarts(t, i) \/ ServerReads(t, i)
         \/ RefreshAnswered(t, i) \/ RefreshFails(t, i)
    \/ Hide(t) \/ Show(t) \/ Leave(t)

(***************************************************************************)
(* Fairness: the timer of a refresh runs out and a request ends, answered  *)
(* or not (fetch has a timeout).  Nothing is said of the user.             *)
(***************************************************************************)
RefreshStep(t) ==
  \E i \in DOMAIN refreshes[t] :
    RefreshStarts(t, i) \/ ServerReads(t, i) \/ RefreshAnswered(t, i)

Fairness == \A t \in Tabs : WF_vars(RefreshStep(t))

Safety == Init /\ [][Next]_vars
Spec   == Safety /\ Fairness

(***************************************************************************)
(* Properties                                                              *)
(***************************************************************************)

\* A page's save is refused only because another page has saved, or because
\* the page lost track of the hash itself: by a save it never had an answer to
\* or by a refresh that crossed a save.  The saves of one page never refuse
\* each other, which is what the queue of useSerialAsyncCallback is for.
NoSelfConflict ==
  \A t \in Tabs :
    save[t].stage = "refused" =>
      writers \ {t} # {} \/ excuse[t] \cap {"unanswered", "crossed"} # {}

\* Another save was accepted between the server's check of a save of the page and
\* its commit.
Raced(t) == \E m \in {save[t], beacon[t]} :
              m.stage = "passed" /\ Hash(m.base) # Hash(draft)

\* An accepted save takes an edit of the graph or of the features away from the
\* server only when its page had taken the hash of a content it lacks (from a
\* refresh that kept its canvas and features, from an answer that another page's
\* save had overtaken, or from a refresh that crossed a save), or when the server
\* let another save pass between its check and its commit.  The hash does not
\* speak for the variables: an edit of these goes whenever another page has saved,
\* but a page alone does not take back its own.
OverwritesOnlyKnown ==
  [][\A t \in Tabs : \A e \in draft \ draft' :
       ServerCommits(t) =>
         IF e \in Variables
         THEN writers \ {t} # {} \/ excuse[t] \cap {"unanswered", "crossed"} # {}
         ELSE Raced(t) \/ excuse[t] \cap {"kept", "overtaken", "crossed"} # {}]_vars

\* An edit that is neither on the server, nor lost from it, nor waiting in its
\* page for a save is one the page has given up: its save was refused or failed,
\* was cancelled by a refresh or found the draft closed, or a refresh replaced
\* the canvas.
EditIsSavedOrGivenUp ==
  \A t \in Tabs : \A e \in EditsOf[t] \cap made :
    \/ e \in draft \cup lost \cup dropped
    \/ e \in canvas[t] /\ (debounced[t] \/ queue[t] # <<>>)
    \/ e \in save[t].body

\* A refresh closes the draft for saves only for a time, though refreshes may
\* overlap and fail.
DraftOpensAgain ==
  \A t \in Tabs : ~loaded[t] ~> loaded[t] \/ shown[t] = "left"
=============================================================================
