----------------------------- MODULE HumanInput -----------------------------
(***************************************************************************)
(* A workflow run that waits for people.  A human input node creates a     *)
(* form and the run pauses; a recipient answers the form, or a periodic    *)
(* scan times it out; either puts a resume task into the queue, and the    *)
(* task runs the graph on from the stored pause, until it pauses again or  *)
(* ends.  No row is locked: what a transaction writes may rest on what     *)
(* another one has changed since it was read.                              *)
(*                                                                         *)
(* services/human_input_service.py, tasks/human_input_timeout_tasks.py,    *)
(* core/repositories/human_input_repository.py, the pause methods of       *)
(* repositories/sqlalchemy_api_workflow_run_repository.py, and the resume  *)
(* task of tasks/app_generate/workflow_execute_task.py.  The graph engine  *)
(* and its nodes are a library.                                            *)
(***************************************************************************)
EXTENDS Integers

CONSTANTS
  Forms,       \* the human input nodes of the graph, and their forms
  Before,      \* the nodes whose answers a node comes after
  Recipients,  \* the people who hold a token of each form
  Nobody,
  Workers,     \* processes that run the graph
  MaxFaults    \* bound: workers that die, and resume tasks the broker refuses

ASSUME GraphHasNodes == Before \in [Forms -> SUBSET Forms]
ASSUME NobodyIsNoRecipient == \A n \in Forms : Nobody \notin Recipients[n]
ASSUME FaultsAreBounded == MaxFaults \in Nat

VARIABLES
  form,     \* the rows of the forms
  run,      \* WorkflowRun.status
  pause,    \* the WorkflowPause of the run; id 0: there is none
  pauses,   \* how many pauses have been created
  queued,   \* resume tasks in the queue
  worker,   \* what each worker is doing
  active,   \* requests that found their form active: a recipient and the form
  scan,     \* what check_and_handle_human_input_timeouts is doing
  faults,   \* faults so far
  taken,    \* history: the answer each node went on with
  trouble   \* history: what went wrong outside the guards of the code

db      == <<form, run, pause, pauses>>
procs   == <<worker, active, scan>>
history == <<taken, trouble>>
vars    == <<db, queued, procs, faults, history>>

(***************************************************************************)
(* Types                                                                   *)
(***************************************************************************)
Statuses == {"none", "waiting", "submitted", "timeout", "expired"}
Final    == {"succeeded", "failed", "stopped"}
TimedOut == {"timeout", "expired"}
People   == UNION {Recipients[n] : n \in Forms}
Requests == {q \in People \X Forms : q[1] \in Recipients[q[2]]}

Idle   == [stage |-> "idle", pause |-> 0, done |-> {}, waits |-> {}, seen |-> "running"]
Quiet  == [todo |-> [n \in Forms |-> "no"], at |-> {}, stop |-> FALSE]

TypeOK ==
  /\ form \in [Forms -> [status : Statuses, by : People \cup {Nobody}, told : BOOLEAN,
                         due : {"no", "node", "global"}]]
  /\ run \in {"running", "paused"} \cup Final
  /\ pauses \in Nat
  /\ pause \in [id : 0..pauses, resumed : BOOLEAN, done : SUBSET Forms, waits : SUBSET Forms]
  /\ queued \in Nat
  /\ worker \in [Workers -> [stage : {"idle", "loaded", "checked", "resumed", "running",
                                      "pausing", "saving", "over"},
                             pause : 0..pauses, done : SUBSET Forms, waits : SUBSET Forms,
                             seen : {"running", "paused"}]]
  /\ active \subseteq Requests
  /\ scan \in [todo : [Forms -> {"no", "node", "global"}], at : SUBSET Forms, stop : BOOLEAN]
  /\ faults \in 0..MaxFaults
  /\ taken \in [Forms -> People \cup {"none", "timeout"}]
  /\ trouble \subseteq {"overlap", "lost", "twice", "ended"}

NoPause == [id |-> 0, resumed |-> FALSE, done |-> {}, waits |-> {}]

Init ==
  /\ form = [n \in Forms |-> [status |-> "none", by |-> Nobody, told |-> FALSE, due |-> "no"]]
  /\ run = "running" /\ pause = NoPause /\ pauses = 0 /\ queued = 0
  /\ \E w \in Workers :
       worker = [v \in Workers |-> IF v = w THEN [Idle EXCEPT !.stage = "running"] ELSE Idle]
  /\ active = {}
  /\ scan = Quiet
  /\ faults = 0
  /\ taken = [n \in Forms |-> "none"]
  /\ trouble = {}

(***************************************************************************)
(* What a row says: a form that was submitted and one that timed out are   *)
(* both answered.  A row may say both, and the node goes on with either.   *)
(***************************************************************************)
Answers(n) ==
  (IF form[n].by # Nobody THEN {form[n].by} ELSE {})
  \cup (IF form[n].status \in TimedOut THEN {"timeout"} ELSE {})

Answered(n) == Answers(n) # {}

(***************************************************************************)
(* enqueue_resume.  A task the broker refuses is logged and forgotten.     *)
(***************************************************************************)
EnqueueResume_Never(otherTrouble) ==
  /\ trouble' = trouble \cup otherTrouble
  /\ UNCHANGED <<queued, faults>>

EnqueueResume(otherTrouble) ==
  \/ /\ queued' = queued + 1
     /\ trouble' = trouble \cup otherTrouble
     /\ UNCHANGED faults
  \/ /\ faults < MaxFaults
     /\ faults' = faults + 1
     /\ trouble' = trouble \cup otherTrouble \cup {"lost"}
     /\ UNCHANGED queued

(***************************************************************************)
(* submit_form_by_token: ensure_form_active looks at the row, and          *)
(* mark_submitted overwrites it in a later transaction.                    *)
(***************************************************************************)
Active_Submitted(n) == form[n].status \notin TimedOut /\ form[n].due = "no"

Active(n) == form[n].by = Nobody /\ form[n].status \notin TimedOut /\ form[n].due = "no"

EnsureFormActive(r, n) ==
  /\ r \in Recipients[n]
  /\ form[n].told /\ Active(n)
  /\ active' = active \cup {<<r, n>>}
  /\ UNCHANGED <<db, queued, worker, scan, faults, history>>

Overlap(n, mine) ==
  IF \E q \in active \ mine : q[2] = n THEN {"overlap"} ELSE {}

MarkSubmitted(r, n) ==
  /\ <<r, n>> \in active
  /\ form' = [form EXCEPT ![n].by = r, ![n].status = "submitted"]
  /\ active' = active \ {<<r, n>>}
  /\ EnqueueResume(IF n \in scan.at THEN {"overlap"} ELSE Overlap(n, {<<r, n>>}))
  /\ UNCHANGED <<run, pause, pauses, worker, scan, taken>>

(***************************************************************************)
(* check_and_handle_human_input_timeouts: one query finds the waiting      *)
(* forms whose time is over; mark_timeout reads each again and writes its  *)
(* status, which stays for a form that timed out before; the answer of a   *)
(* form that was submitted in the meantime stays in the row.  A form over  *)
(* its own time resumes the run; one over the global time stops it.  Of    *)
(* the two limits the first one counts.  One scan runs at a time.          *)
(***************************************************************************)
TimeIsOver(n) ==
  /\ form[n].status # "none" /\ form[n].due = "no"
  /\ \E limit \in {"node", "global"} : form' = [form EXCEPT ![n].due = limit]
  /\ UNCHANGED <<run, pause, pauses, queued, procs, faults, history>>

Expired == {n \in Forms : form[n].status = "waiting" /\ form[n].due # "no"}

ScanForms ==
  /\ scan = Quiet /\ Expired # {}
  /\ scan' = [Quiet EXCEPT !.todo = [n \in Forms |-> IF n \in Expired THEN form[n].due ELSE "no"]]
  /\ UNCHANGED <<db, queued, worker, active, faults, history>>

TimeoutReads(n) ==
  /\ scan.todo[n] # "no" /\ scan.at = {} /\ ~scan.stop
  /\ scan' = IF form[n].status = "submitted" THEN [scan EXCEPT !.todo[n] = "no"]
             ELSE [scan EXCEPT !.at = {n}]
  /\ UNCHANGED <<db, queued, worker, active, faults, history>>

MarkTimeout(n) ==
  /\ n \in scan.at
  /\ form' = [form EXCEPT ![n].status = IF @ \in TimedOut THEN @
                                       ELSE IF scan.todo[n] = "global" THEN "expired" ELSE "timeout"]
  /\ scan' = [scan EXCEPT !.todo[n] = "no", !.at = {}, !.stop = scan.todo[n] = "global"]
  /\ IF scan.todo[n] = "global"
     THEN /\ trouble' = trouble \cup Overlap(n, {})
          /\ UNCHANGED <<queued, faults>>
     ELSE EnqueueResume(Overlap(n, {}))
  /\ UNCHANGED <<run, pause, pauses, worker, active, taken>>

\* _handle_global_timeout stops the run whatever its state.
Executing == {w \in Workers : worker[w].stage \in {"resumed", "running", "pausing", "saving"}}

HandleGlobalTimeout ==
  /\ scan.stop
  /\ scan' = [scan EXCEPT !.stop = FALSE]
  /\ run' = "stopped"
  /\ pause' = IF pause.id = 0 THEN pause ELSE [pause EXCEPT !.resumed = TRUE]
  /\ trouble' = IF run # "paused" \/ \E w \in Workers : worker[w].stage \notin {"idle", "loaded", "over"}
                THEN trouble \cup {"ended"} ELSE trouble
  /\ UNCHANGED <<form, pauses, queued, worker, active, faults, taken>>

(***************************************************************************)
(* resume_app_execution: get_workflow_pause, then resume_workflow_pause.   *)
(* A task that finds no pause it may resume ends.  It is lost if the run   *)
(* waits for a form that is answered, or will do so when a worker pauses   *)
(* that has seen the form unanswered.                                      *)
(***************************************************************************)
ActivePause == pause.id # 0 /\ ~pause.resumed

Unseen ==
  \E n \in Forms :
    /\ Answered(n)
    /\ \/ n \in pause.waits /\ ActivePause
       \/ \E w \in Executing : n \in worker[w].waits

Drop(w) ==
  /\ worker' = [worker EXCEPT ![w] = Idle]
  /\ trouble' = IF Unseen THEN trouble \cup {"lost"} ELSE trouble

GetPause(w) ==
  /\ queued > 0 /\ worker[w].stage = "idle"
  /\ queued' = queued - 1
  /\ IF pause.id = 0 THEN Drop(w)
     ELSE /\ worker' = [worker EXCEPT ![w] = [Idle EXCEPT !.stage = "loaded", !.pause = pause.id,
                                                          !.done = pause.done]]
          /\ UNCHANGED trouble
  /\ UNCHANGED <<db, active, scan, faults, taken>>

MayResume_ById(w) == pause.id = worker[w].pause

MayResume(w) == run = "paused" /\ pause.id = worker[w].pause /\ ~pause.resumed

CheckPause(w) ==
  /\ worker[w].stage = "loaded"
  /\ IF MayResume(w)
     THEN /\ worker' = [worker EXCEPT ![w].stage = "checked"]
          /\ UNCHANGED trouble
     ELSE Drop(w)
  /\ UNCHANGED <<db, queued, active, scan, faults, taken>>

\* Nothing keeps two tasks from resuming one pause if both check it first; but a
\* row that is gone cannot be updated.
ResumePause(w) ==
  /\ worker[w].stage = "checked"
  /\ IF pause.id = worker[w].pause
     THEN /\ pause' = [pause EXCEPT !.resumed = TRUE]
          /\ run' = "running"
          /\ worker' = [worker EXCEPT ![w].stage = "resumed"]
          /\ trouble' = IF \E v \in Workers \ {w} : worker[v].stage = "checked" /\ worker[v].pause = pause.id
                        THEN trouble \cup {"twice"} ELSE trouble
     ELSE /\ Drop(w)
          /\ UNCHANGED <<pause, run>>
  /\ UNCHANGED <<form, pauses, queued, active, scan, faults, taken>>

(***************************************************************************)
(* The graph.  Its start is saved; each node that is ready creates its     *)
(* form, finds it answered, or waits; a node after an answer may fail.     *)
(***************************************************************************)
Start(w) ==
  /\ worker[w].stage = "resumed"
  /\ worker' = [worker EXCEPT ![w].stage = "running"]
  /\ run' = "running"
  /\ UNCHANGED <<form, pause, pauses, queued, active, scan, faults, history>>

Ready(w) ==
  {n \in Forms : n \notin worker[w].done \cup worker[w].waits /\ Before[n] \subseteq worker[w].done}

Waits(w, n) ==
  /\ ~Answered(n)
  /\ form' = [form EXCEPT ![n].status = "waiting"]
  /\ worker' = [worker EXCEPT ![w].waits = @ \cup {n}]
  /\ UNCHANGED taken

GoesOn(w, n) ==
  /\ \E a \in Answers(n) : taken' = [taken EXCEPT ![n] = a]
  /\ worker' = [worker EXCEPT ![w].done = @ \cup {n}]
  /\ UNCHANGED form

NodeRuns(w, n) ==
  /\ worker[w].stage = "running" /\ n \in Ready(w)
  /\ Waits(w, n) \/ GoesOn(w, n)
  /\ UNCHANGED <<run, pause, pauses, queued, active, scan, faults, trouble>>

\* Nothing of the graph is kept when the task is over.
Over(w) == [worker EXCEPT ![w] = [Idle EXCEPT !.stage = "over", !.pause = worker[w].pause]]

\* The end of the graph is saved by the persistence layer.
Ends(w, status) ==
  /\ worker[w].stage = "running"
  /\ run' = status
  /\ worker' = Over(w)
  /\ UNCHANGED <<form, pause, pauses, queued, active, scan, faults, history>>

Succeeds(w) == worker[w].done = Forms /\ Ends(w, "succeeded")
Fails(w)    == worker[w].done # {} /\ Ends(w, "failed")

(***************************************************************************)
(* A pause: the persistence layer saves the status, and then the pause     *)
(* layer calls create_workflow_pause, which uploads the state between its  *)
(* reading and its commit, and replaces the pause of before.  Only then    *)
(* are the recipients told.                                                *)
(***************************************************************************)
GraphPauses(w) ==
  /\ worker[w].stage = "running" /\ Ready(w) = {} /\ worker[w].waits # {}
  /\ run' = "paused"
  /\ worker' = [worker EXCEPT ![w].stage = "pausing"]
  /\ UNCHANGED <<form, pause, pauses, queued, active, scan, faults, history>>

PauseReads(w) ==
  /\ worker[w].stage = "pausing"
  /\ worker' = IF run \in {"running", "paused"}
               THEN [worker EXCEPT ![w].stage = "saving", ![w].seen = run]
               ELSE Over(w)
  /\ UNCHANGED <<db, queued, active, scan, faults, history>>

CreatePause(w) ==
  /\ worker[w].stage = "saving"
  /\ pauses' = pauses + 1
  /\ pause' = [id |-> pauses', resumed |-> FALSE,
               done |-> worker[w].done, waits |-> worker[w].waits]
  /\ run' = IF worker[w].seen = "paused" THEN run ELSE "paused"
  /\ form' = [n \in Forms |-> IF n \in worker[w].waits THEN [form[n] EXCEPT !.told = TRUE]
                              ELSE form[n]]
  /\ worker' = Over(w)
  /\ UNCHANGED <<queued, active, scan, faults, history>>


Deleted(w) == worker[w].pause # 0 /\ pause.id = worker[w].pause

TaskEnds(w) ==
  /\ worker[w].stage = "over"
  /\ worker' = [worker EXCEPT ![w] = Idle]
  /\ pause' \in {pause, IF Deleted(w) THEN NoPause ELSE pause}
  /\ UNCHANGED <<form, run, pauses, queued, active, scan, faults, history>>

Dies(w) ==
  /\ worker[w].stage # "idle" /\ faults < MaxFaults
  /\ worker' = [worker EXCEPT ![w] = Idle]
  /\ faults' = faults + 1
  /\ trouble' = trouble \cup {"lost"}
  /\ UNCHANGED <<db, queued, active, scan, taken>>

WorkerStep(w) ==
  \/ GetPause(w) \/ CheckPause(w) \/ ResumePause(w) \/ Start(w)
  \/ \E n \in Forms : NodeRuns(w, n)
  \/ Succeeds(w) \/ Fails(w)
  \/ GraphPauses(w) \/ PauseReads(w) \/ CreatePause(w) \/ TaskEnds(w)

ScanStep ==
  \/ ScanForms \/ HandleGlobalTimeout
  \/ \E n \in Forms : TimeoutReads(n) \/ MarkTimeout(n)

Next ==
  \/ \E r \in People, n \in Forms : EnsureFormActive(r, n) \/ MarkSubmitted(r, n)
  \/ \E n \in Forms : TimeIsOver(n)
  \/ ScanStep
  \/ \E w \in Workers : WorkerStep(w) \/ Dies(w)

(***************************************************************************)
(* Fairness: the workers work, a form's time comes to an end, and the scan *)
(* is started every minute.  Nobody has to answer.                         *)
(***************************************************************************)
Fairness ==
  /\ \A w \in Workers : WF_vars(WorkerStep(w))
  /\ \A n \in Forms : WF_vars(TimeIsOver(n))
  /\ WF_vars(ScanStep)

Safety == Init /\ [][Next]_vars
Spec   == Safety /\ Fairness

(***************************************************************************)
(* Properties                                                              *)
(***************************************************************************)

\* The graph of a run is executed by one worker at a time, however many forms
\* are answered, unless two tasks checked one pause before either resumed it.
OneExecution == \A v, w \in Executing : v = w \/ "twice" \in trouble

\* A node went on with the answer that stands in the row of its form, unless two
\* requests, or a request and the scan, both found the form unanswered.
AnswerTakenStands ==
  \A n \in Forms : taken[n] # "none" => taken[n] \in Answers(n) \/ "overlap" \in trouble

\* A run that pauses for a form which has been answered is about to go on or to
\* be stopped, unless a task was refused, died, or came while the run was still
\* executed by a worker that had seen the form unanswered.
AnsweredRunIsResumed ==
  run = "paused" /\ ActivePause /\ (\E n \in pause.waits : Answered(n)) =>
    \/ queued > 0 \/ scan.stop
    \/ \E w \in Workers : worker[w].stage \in {"loaded", "checked"}
    \/ trouble \cap {"lost", "twice", "ended"} # {}

\* A run that has ended stays as it ended, unless the global limit struck a run
\* that was not waiting, or a pause was resumed twice.
EndIsFinal ==
  [][(run \in Final) => run' = run \/ trouble' \cap {"ended", "twice"} # {}]_vars

=============================================================================
