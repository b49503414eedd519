---------------------------- MODULE ChatSession -----------------------------
(***************************************************************************)
(* A chat in the browser: a message is sent with ssePost and answered by a *)
(* stream of events; a workflow that pauses for a form goes on in a second *)
(* stream, opened with sseGet; the user stops an answer, starts anew, or   *)
(* opens a paused message again.  The streams share the refs of useChat,   *)
(* and only the latest of them can be aborted.                             *)
(*                                                                         *)
(* web/app/components/base/chat/chat/hooks.ts, and ssePost, sseGet and     *)
(* handleStream of web/service/base.ts.                                    *)
(*                                                                         *)
(* Messages are numbered in the order they are sent, each the child of the *)
(* last one on the screen; the events of a stream that differ only in what *)
(* they write into the answer are one action, Event.                       *)
(***************************************************************************)
EXTENDS Naturals, Sequences

CONSTANTS
  MaxMessages,  \* bound: messages the user sends
  MaxStreams    \* bound: requests the chat makes

ASSUME BoundsAreNumbers == MaxMessages \in Nat \ {0} /\ MaxStreams \in Nat \ {0}

VARIABLES
  responding,   \* isRespondingRef
  stopped,      \* hasStopRespondedRef
  pausedState,  \* pausedStateRef
  task,         \* taskIdRef: the message whose task it is, or 0
  controller,   \* workflowEventsAbortControllerRef: the number of a stream, or 0
  streams,      \* the streams so far
  shown,        \* chatTree: the messages on the screen
  tree,         \* chatTreeRef
  parent,       \* the message each message answers to, or 0
  run,          \* the server's run of each message
  sent,         \* how many messages have been sent
  since,        \* history: messages sent before the last restart
  trouble       \* history: what happened to the requests so far

refs    == <<responding, stopped, pausedState, task, controller>>
screen  == <<shown, tree, parent>>
history == <<since, trouble>>
vars    == <<refs, streams, screen, run, sent, history>>

(***************************************************************************)
(* Types.  A stream belongs to a message; "send" streams have the          *)
(* callbacks of handleSend, "resume" streams those of handleResume.  A     *)
(* "snapshot" is a GET that first tells what the run has done so far.      *)
(***************************************************************************)
Messages == 1..MaxMessages
Stages   == {"asked", "aborting", "refreshing", "open", "ending", "closed"}
Verbs    == {"post", "get", "snapshot"}
Stream   == [msg : Messages, verb : Verbs, by : {"send", "resume"}, stage : Stages]

TypeOK ==
  /\ responding \in BOOLEAN /\ stopped \in BOOLEAN /\ pausedState \in BOOLEAN
  /\ task \in 0..sent
  /\ streams \in Seq(Stream) /\ Len(streams) <= MaxStreams
  /\ controller \in 0..Len(streams)
  /\ shown \subseteq Messages /\ tree \subseteq Messages
  /\ parent \in [Messages -> 0..MaxMessages]
  /\ run \in [Messages -> {"none", "running", "paused", "over"}]
  /\ sent \in 0..MaxMessages /\ since \in 0..sent
  /\ trouble \subseteq {"resent", "unended", "silent", "late"}

Init ==
  /\ responding = FALSE /\ stopped = FALSE /\ pausedState = FALSE
  /\ task = 0 /\ controller = 0
  /\ streams = <<>>
  /\ shown = {} /\ tree = {}
  /\ parent = [m \in Messages |-> 0]
  /\ run = [m \in Messages |-> "none"]
  /\ sent = 0 /\ since = 0 /\ trouble = {}

(***************************************************************************)
(* Streams.  A new one becomes the one that can be aborted.  Aborting does *)
(* nothing to a request that is waiting for a new access token; a stream   *)
(* that is being read just ends, and no callback is called.                *)
(***************************************************************************)
New(m, verb, by) == [msg |-> m, verb |-> verb, by |-> by, stage |-> "asked"]

Aborted_Not(ss) == ss

Aborted(ss) ==
  [i \in DOMAIN ss |->
     IF i # controller THEN ss[i]
     ELSE [ss[i] EXCEPT !.stage = CASE @ = "asked" -> "aborting"
                                    [] @ \in {"open", "ending"} -> "closed"
                                    [] OTHER -> @]]

Open(ss, m, verb, by) ==
  /\ Len(ss) < MaxStreams
  /\ streams' = Append(ss, New(m, verb, by))
  /\ controller' = Len(ss) + 1

At(i, stage) == streams' = [streams EXCEPT ![i].stage = stage]

(***************************************************************************)
(* updateCurrentQAOnTree: the question and its answer replace the node of  *)
(* the question, with no children under the answer; a first message starts *)
(* from the tree its closure saw, which was empty.                         *)
(***************************************************************************)
Below(m) == {k \in Messages : k > m /\ k <= sent /\ k > since}

TreeWith_FromRoot(m, t) == {m}

TreeWith(m, t) ==
  IF parent'[m] = 0 THEN {m}
  ELSE IF parent'[m] \in t THEN (t \ Below(m)) \cup {m} ELSE t

UpdateQA(m) ==
  /\ tree' = TreeWith(m, tree)
  /\ shown' = tree'

\* A callback of handleResume updates the node where it is.
UpdateNode ==
  /\ shown' = tree
  /\ UNCHANGED tree

Update(s) ==
  /\ UNCHANGED parent
  /\ IF s.by = "send" THEN UpdateQA(s.msg) ELSE UpdateNode

(***************************************************************************)
(* handleSend                                                              *)
(***************************************************************************)
Last == IF shown = {} THEN 0 ELSE CHOOSE m \in shown : \A k \in shown : k <= m

Send ==
  /\ ~responding /\ sent < MaxMessages
  /\ sent' = sent + 1
  /\ parent' = [parent EXCEPT ![sent'] = Last]
  /\ UpdateQA(sent')
  /\ responding' = TRUE
  /\ stopped' = FALSE
  /\ Open(Aborted(streams), sent', "post", "send")
  /\ trouble' = IF \E i \in DOMAIN streams : i # controller /\ streams[i].stage # "closed"
                THEN trouble \cup {"unended"} ELSE trouble
  /\ UNCHANGED <<pausedState, task, run, since>>

(***************************************************************************)
(* handleStop and handleRestart.  The task is forgotten before handleStop  *)
(* is called, so a restart stops no run; chatTreeRef keeps the old tree.   *)
(***************************************************************************)
MayStopRun == task # 0 /\ ~pausedState

Stop ==
  /\ responding
  /\ stopped' = TRUE
  /\ responding' = FALSE
  /\ run' = IF MayStopRun THEN [run EXCEPT ![task] = "over"] ELSE run
  /\ streams' = Aborted(streams)
  /\ UNCHANGED <<pausedState, task, controller, screen, sent, history>>

Restart ==
  /\ sent > since
  /\ task' = 0
  /\ stopped' = TRUE
  /\ responding' = FALSE
  /\ streams' = Aborted(streams)
  /\ shown' = {}
  /\ since' = sent
  /\ UNCHANGED <<pausedState, controller, tree, parent, run, sent, trouble>>

(***************************************************************************)
(* handleResume of a message that waits for a form.                        *)
(***************************************************************************)
Resume(m) ==
  /\ m \in shown /\ run[m] = "paused"
  /\ Open(Aborted(streams), m, "snapshot", "resume")
  /\ UNCHANGED <<responding, stopped, pausedState, task, screen, run, sent, history>>

(***************************************************************************)
(* The request is answered: the stream opens, a server error is told to    *)
(* onError, and a 401 waits for a new access token, after which the same   *)
(* call is made again, stopped or not; without a token nobody is told.     *)
(***************************************************************************)
OnError(s) ==
  /\ responding' = FALSE
  /\ IF s.by = "send" THEN Update(s) ELSE UNCHANGED screen

Accepted(i) ==
  /\ streams[i].stage = "asked"
  /\ At(i, "open")
  /\ run' = [run EXCEPT ![streams[i].msg] = IF @ = "none" THEN "running" ELSE @]
  /\ UNCHANGED <<refs, screen, sent, history>>

Unauthorized(i) ==
  /\ streams[i].stage = "asked"
  /\ At(i, "refreshing")
  /\ UNCHANGED <<refs, screen, run, sent, history>>

SentAgain(i) ==
  LET s == streams[i] IN
  /\ s.stage = "refreshing"
  /\ Open([streams EXCEPT ![i].stage = "closed"], s.msg, s.verb, s.by)
  /\ trouble' = trouble \cup {"resent"}
  /\ UNCHANGED <<responding, stopped, pausedState, task, screen, run, sent, since>>

NotRefreshed(i) ==
  /\ streams[i].stage = "refreshing"
  /\ At(i, "closed")
  /\ trouble' = trouble \cup {"silent"}
  /\ UNCHANGED <<refs, screen, run, sent, since>>

Rejected(i) ==
  LET s == streams[i] IN
  /\ s.stage = "asked"
  /\ At(i, "closed")
  /\ OnError(s)
  /\ UNCHANGED <<stopped, pausedState, task, controller, run, sent, history>>

(***************************************************************************)
(* fetch itself fails, or was aborted.  The handler of sseGet calls        *)
(* onError; the one of ssePost throws before it does, except for one text  *)
(* of an abort, which not every browser uses.                              *)
(***************************************************************************)
FetchFails(i) ==
  LET s == streams[i] IN
  /\ s.stage \in {"asked", "aborting"}
  /\ At(i, "closed")
  /\ \/ /\ s.verb # "post" \/ s.stage = "aborting"
        /\ OnError(s)
        /\ trouble' = IF s.stage = "aborting" THEN trouble \cup {"late"} ELSE trouble
     \/ /\ s.verb = "post"
        /\ trouble' = IF s.stage = "asked" THEN trouble \cup {"silent"} ELSE trouble
        /\ UNCHANGED <<responding, screen>>
  /\ UNCHANGED <<stopped, pausedState, task, controller, run, sent, since>>

(***************************************************************************)
(* Events of a stream that is being read: those of a run that goes on, and *)
(* in a snapshot also those of a run that still waits for its form.        *)
(*                                                                         *)
(* A message carries the task, a line that was cut off does not, and then  *)
(* handleSend forgets it; most events leave it alone.                      *)
(***************************************************************************)
Live(i) ==
  LET s == streams[i] IN
  /\ s.stage = "open"
  /\ run[s.msg] = "running" \/ (s.verb = "snapshot" /\ run[s.msg] = "paused")

Tasks(s) == {task, s.msg} \cup (IF s.by = "send" THEN {0} ELSE {})

Event(i) ==
  LET s == streams[i] IN
  /\ Live(i)
  /\ \/ /\ s.by = "resume"           \* workflow_started
        /\ responding' = TRUE
        /\ stopped' = FALSE
     \/ UNCHANGED <<responding, stopped>>
  /\ task' \in Tasks(s)
  /\ Update(s)
  /\ UNCHANGED <<pausedState, controller, streams, run, sent, history>>

\* message_end of an answer that is taken from the annotations: no workflow
\* runs, and the input is opened although the stream stays open.
AnnotationReply(i) ==
  LET s == streams[i] IN
  /\ Live(i) /\ s.verb = "post"
  /\ run' = [run EXCEPT ![s.msg] = "over"]
  /\ responding' = FALSE
  /\ Update(s)
  /\ UNCHANGED <<stopped, pausedState, task, controller, streams, sent, history>>

\* workflow_paused.  In a snapshot it may be out of date: the form was filled
\* since the server looked at the run.
Paused(i) ==
  LET s == streams[i] IN
  /\ Live(i)
  /\ \/ run' = [run EXCEPT ![s.msg] = "paused"]
     \/ s.verb = "snapshot" /\ UNCHANGED run
  /\ pausedState' = TRUE
  /\ Open([streams EXCEPT ![i].stage = "ending"], s.msg, "get", s.by)
  /\ Update(s)
  /\ UNCHANGED <<responding, stopped, task, sent, history>>

FormFilled(m) ==
  /\ run[m] = "paused"
  /\ run' = [run EXCEPT ![m] = "running"]
  /\ UNCHANGED <<refs, streams, screen, sent, history>>

\* workflow_finished.  A GET of a run that is over is answered with it at once.
Finished(i) ==
  LET s == streams[i] IN
  /\ Live(i) \/ (s.stage = "open" /\ s.verb # "post" /\ run[s.msg] = "over")
  /\ run[s.msg] # "paused"
  /\ run' = [run EXCEPT ![s.msg] = "over"]
  /\ pausedState' = IF s.by = "send" THEN FALSE ELSE pausedState
  /\ At(i, "ending")
  /\ Update(s)
  /\ UNCHANGED <<responding, stopped, task, controller, sent, history>>

(***************************************************************************)
(* The end of a stream: onCompleted, also when the server closes a stream  *)
(* in which nothing was sent for a while, whatever the run does; or an     *)
(* event that is an error: onError, or onData if the error has no text,    *)
(* and onCompleted.  A connection that breaks while it is read ends the    *)
(* loop without a callback.                                                *)
(***************************************************************************)
RespondingAtEnd_Stopped(i) == responding /\ ~stopped

RespondingAtEnd(i) == FALSE

Ended(i) ==
  /\ streams[i].stage \in {"open", "ending"}
  /\ At(i, "closed")
  /\ responding' = RespondingAtEnd(i)
  /\ UNCHANGED <<stopped, pausedState, task, controller, screen, run, sent, history>>

Failed(i) ==
  LET s == streams[i] IN
  /\ Live(i) /\ run[s.msg] = "running"
  /\ At(i, "closed")
  /\ run' = [run EXCEPT ![s.msg] = "over"]
  /\ OnError(s)
  /\ task' = task \/ (s.by = "send" /\ task' = 0)
  /\ UNCHANGED <<stopped, pausedState, controller, sent, history>>

Broken(i) ==
  /\ streams[i].stage \in {"open", "ending"}
  /\ At(i, "closed")
  /\ trouble' = trouble \cup {"silent"}
  /\ UNCHANGED <<refs, screen, run, sent, since>>

StreamStep(i) ==
  \/ Accepted(i) \/ Unauthorized(i) \/ SentAgain(i) \/ NotRefreshed(i)
  \/ Rejected(i) \/ FetchFails(i)
  \/ Event(i) \/ AnnotationReply(i) \/ Paused(i) \/ Finished(i)
  \/ Ended(i) \/ Failed(i) \/ Broken(i)

Next ==
  \/ Send \/ Stop \/ Restart
  \/ \E m \in Messages : Resume(m) \/ FormFilled(m)
  \/ \E i \in DOMAIN streams : StreamStep(i)

(***************************************************************************)
(* Fairness: a request is answered or fails, and a stream that is read     *)
(* comes to an end, at the latest when the server has had nothing to send  *)
(* for a while.  Nobody need fill a form.                                  *)
(***************************************************************************)
Progress(i) ==
  \/ Accepted(i) \/ SentAgain(i) \/ NotRefreshed(i) \/ Rejected(i) \/ FetchFails(i)
  \/ Finished(i) \/ Ended(i) \/ Failed(i) \/ Broken(i)

Fairness == \A i \in 1..MaxStreams : WF_vars(i \in DOMAIN streams /\ Progress(i))

Safety == Init /\ [][Next]_vars
Spec   == Safety /\ Fairness

(***************************************************************************)
(* Properties                                                              *)
(***************************************************************************)

\* Two answers are never written at the same time, although a paused one may go
\* on at any moment in a stream of its own, unless a request was sent again
\* after a 401 that came back when the user had moved on.
OneAnswerAtATime ==
  \A i, j \in DOMAIN streams :
    Live(i) /\ Live(j) => streams[i].msg = streams[j].msg \/ "resent" \in trouble

\* From its request until it is complete or the run pauses, the answer to the
\* latest message keeps the input closed, or the user has stopped: no older
\* stream opens it by its end or its error, unless such a stream could not be
\* aborted when the message was sent.  Nothing is said of what follows a pause:
\* the end of the POST opens the input, and the rest of the answer comes in a
\* GET with the input open, until it is complete or the next message aborts it.
InputClosedUntilPause ==
  \A i \in DOMAIN streams :
    Live(i) /\ streams[i].verb = "post" /\ streams[i].msg = sent =>
      responding \/ stopped \/ trouble \cap {"late", "resent", "unended"} # {}

\* The messages sent since the last restart, and no other ones, are on the
\* screen, unless a request was aborted before it was answered, in which case
\* its onError writes an old message, or was sent again.
ScreenIsConversation ==
  shown = (since + 1)..sent \/ trouble \cap {"late", "resent"} # {}

\* The chat does not respond for ever: the input is open again when the streams
\* have ended, although events of a snapshot or of an answer that goes on close
\* it anew, unless one failed without any callback being told.
ResponseEnds ==
  responding ~> ~responding \/ "silent" \in trouble
=============================================================================
