-------------------------- MODULE HumanInputProofs --------------------------
(***************************************************************************)
(* What holds of HumanInput for every graph, every set of workers and      *)
(* recipients, and any number of faults.                                   *)
(***************************************************************************)
EXTENDS HumanInput, TLAPS

(***************************************************************************)
(* The strengthening.  A worker that executes the graph has resumed the    *)
(* pause, or replaced it, so no other worker can pass the check; a worker  *)
(* that has passed it holds a pause the run is still waiting in; and a     *)
(* request that found its form active would write over no answer.          *)
(***************************************************************************)
Stage(w) == worker[w].stage

WorkerInv ==
  \A w \in Workers :
    /\ Stage(w) \in {"loaded", "checked"} => worker[w].pause # 0
    /\ Stage(w) \in {"loaded", "checked", "resumed"} => worker[w].waits = {}

ExecutionInv ==
  "twice" \notin trouble =>
    /\ \A v, w \in Executing : v = w
    /\ Executing # {} => ~ActivePause
    /\ \A w \in Executing, c \in Workers :
         Stage(c) = "checked" => worker[c].pause # pause.id

EndInv ==
  "twice" \notin trouble /\ "ended" \notin trouble =>
    /\ Executing # {} => run \notin Final
    /\ \A c \in Workers : Stage(c) = "checked" /\ worker[c].pause = pause.id => run = "paused"

UnderWay ==
  \/ queued > 0 \/ scan.stop
  \/ \E w \in Workers : Stage(w) \in {"loaded", "checked"}
  \/ "lost" \in trouble \/ "twice" \in trouble \/ "ended" \in trouble

AnswerInv == Unseen => UnderWay

RequestInv ==
  "overlap" \notin trouble => \A r \in People, n \in Forms : <<r, n>> \in active => ~Answered(n)

-----------------------------------------------------------------------------
(***************************************************************************)
(* The type invariant with a name for the type of each record, so that a   *)
(* step need only look into the records it changes.                        *)
(***************************************************************************)
Row == [status : Statuses, by : People \cup {Nobody}, told : BOOLEAN, due : {"no", "node", "global"}]

Pause(k) == [id : 0..k, resumed : BOOLEAN, done : SUBSET Forms, waits : SUBSET Forms]

Job(k) == [stage : {"idle", "loaded", "checked", "resumed", "running", "pausing", "saving", "over"},
           pause : 0..k, done : SUBSET Forms, waits : SUBSET Forms, seen : {"running", "paused"}]

Scan == [todo : [Forms -> {"no", "node", "global"}], at : SUBSET Forms, stop : BOOLEAN]

Typed ==
  /\ form \in [Forms -> Row]
  /\ run \in {"running", "paused"} \cup Final
  /\ pauses \in Nat /\ pause \in Pause(pauses)
  /\ queued \in Nat
  /\ worker \in [Workers -> Job(pauses)]
  /\ active \subseteq Requests /\ scan \in Scan
  /\ faults \in 0..MaxFaults
  /\ taken \in [Forms -> People \cup {"none", "timeout"}]
  /\ trouble \subseteq {"overlap", "lost", "twice", "ended"}

LEMMA TypedIsTypeOK == (Typed <=> TypeOK) /\ (Typed' <=> TypeOK')
BY DEF Typed, TypeOK, Row, Pause, Job, Scan

LEMMA IdleIsJob == ASSUME NEW k \in Nat PROVE Idle \in Job(k)
BY DEF Idle, Job

\* A worker that is done with the graph is a worker.
LEMMA OverIsTyped ==
  ASSUME Typed, NEW w \in Workers
  PROVE  Over(w) \in [Workers -> Job(pauses)]
<1>1. worker[w] \in Job(pauses)
  BY DEF Typed
<1>2. [Idle EXCEPT !.stage = "over", !.pause = worker[w].pause] \in Job(pauses)
  BY <1>1 DEF Idle, Job
<1> QED
  BY <1>2 DEF Over, Typed

LEMMA EnqueueIsTyped ==
  ASSUME Typed, NEW t \in SUBSET {"overlap"}, EnqueueResume(t)
  PROVE  /\ queued' \in Nat /\ faults' \in 0..MaxFaults
         /\ trouble' \subseteq {"overlap", "lost", "twice", "ended"}
<1>1. /\ queued \in Nat /\ faults \in 0..MaxFaults
      /\ trouble \subseteq {"overlap", "lost", "twice", "ended"}
  BY DEF Typed
<1>2. trouble' \subseteq trouble \cup {"overlap", "lost"}
  BY DEF EnqueueResume
<1>3. queued' \in Nat /\ faults' \in 0..MaxFaults
  BY <1>1, FaultsAreBounded DEF EnqueueResume
<1> QED
  BY <1>1, <1>2, <1>3

LEMMA DropIsTyped ==
  ASSUME Typed, NEW w \in Workers, Drop(w)
  PROVE  /\ worker' \in [Workers -> Job(pauses)]
         /\ trouble' \subseteq {"overlap", "lost", "twice", "ended"}
BY IdleIsJob DEF Typed, Drop

\* Every variable keeps its type.
THEOREM TypeCorrect == Safety => []TypeOK
<1>1. Init => TypeOK
  <2> SUFFICES ASSUME Init PROVE Typed
    BY TypedIsTypeOK
  <2>1. form \in [Forms -> Row]
    <3>1. [status |-> "none", by |-> Nobody, told |-> FALSE, due |-> "no"] \in Row
      BY DEF Row, Statuses
    <3> QED
      BY <3>1 DEF Init
  <2>2. worker \in [Workers -> Job(0)]
    <3>1. [Idle EXCEPT !.stage = "running"] \in Job(0) /\ Idle \in Job(0)
      BY DEF Idle, Job
    <3> QED
      BY <3>1 DEF Init
  <2>3. scan \in Scan /\ pause \in Pause(0)
    BY DEF Init, Quiet, NoPause, Scan, Pause
  <2>4. faults \in 0..MaxFaults /\ taken \in [Forms -> People \cup {"none", "timeout"}]
    BY FaultsAreBounded DEF Init
  <2> QED
    BY <2>1, <2>2, <2>3, <2>4 DEF Init, Typed
<1>2. TypeOK /\ [Next]_vars => TypeOK'
  <2> SUFFICES ASSUME Typed, [Next]_vars PROVE Typed'
    BY TypedIsTypeOK
  <2> USE DEF db, procs, history
  <2>0. /\ \A n \in Forms : form[n] \in Row
        /\ \A w \in Workers : worker[w] \in Job(pauses)
    BY DEF Typed
  <2>1. ASSUME NEW r \in People, NEW n \in Forms, EnsureFormActive(r, n) PROVE Typed'
    BY <2>1 DEF EnsureFormActive, Typed, Requests
  <2>2. ASSUME NEW r \in People, NEW n \in Forms, MarkSubmitted(r, n) PROVE Typed'
    <3>1. [form[n] EXCEPT !.by = r, !.status = "submitted"] \in Row
      BY <2>0 DEF Row, Statuses
    <3>2. form' \in [Forms -> Row]
      BY <2>2, <3>1 DEF MarkSubmitted, Typed
    <3> QED
      BY <2>2, <3>2, EnqueueIsTyped DEF MarkSubmitted, Overlap, Typed
  <2>3. ASSUME NEW n \in Forms, TimeIsOver(n) PROVE Typed'
    <3>1. \A limit \in {"node", "global"} : [form[n] EXCEPT !.due = limit] \in Row
      BY <2>0 DEF Row
    <3> QED
      BY <2>3, <3>1 DEF TimeIsOver, Typed
  <2>4. CASE ScanForms
    <3>1. scan' \in Scan
      BY <2>0, <2>4 DEF ScanForms, Expired, Scan, Quiet, Row
    <3> QED
      BY <2>4, <3>1 DEF ScanForms, Typed
  <2>5. ASSUME NEW n \in Forms, TimeoutReads(n) PROVE Typed'
    <3>1. scan' \in Scan
      BY <2>5 DEF TimeoutReads, Typed, Scan
    <3> QED
      BY <2>5, <3>1 DEF TimeoutReads, Typed
  <2>6. ASSUME NEW n \in Forms, MarkTimeout(n) PROVE Typed'
    <3>1. \A s \in TimedOut : [form[n] EXCEPT !.status = s] \in Row
      BY <2>0 DEF Row, Statuses, TimedOut
    <3>2. form' \in [Forms -> Row]
      <4>1. PICK s \in TimedOut : form' = [form EXCEPT ![n].status = s]
        BY <2>0, <2>6 DEF MarkTimeout, Typed, TimedOut
      <4> QED
        BY <3>1, <4>1 DEF Typed
    <3>3. scan' \in Scan
      BY <2>6 DEF MarkTimeout, Typed, Scan
    <3>4. Overlap(n, {}) \in SUBSET {"overlap"}
      BY DEF Overlap
    <3> QED
      BY <2>6, <3>2, <3>3, <3>4, EnqueueIsTyped DEF MarkTimeout, Typed
  <2>7. CASE HandleGlobalTimeout
    <3>1. scan' \in Scan /\ pause' \in Pause(pauses)
      BY <2>7 DEF HandleGlobalTimeout, Typed, Scan, Pause
    <3> QED
      BY <2>7, <3>1 DEF HandleGlobalTimeout, Typed, Final
  <2>8. ASSUME NEW w \in Workers, GetPause(w) PROVE Typed'
    <3>1. [Idle EXCEPT !.stage = "loaded", !.pause = pause.id, !.done = pause.done] \in Job(pauses)
      BY DEF Typed, Idle, Job, Pause
    <3> QED
      BY <2>8, <3>1, DropIsTyped DEF GetPause, Typed
  <2>9. ASSUME NEW w \in Workers, NEW s \in {"checked", "resumed", "running", "pausing"},
               worker' = [worker EXCEPT ![w].stage = s]
        PROVE  worker' \in [Workers -> Job(pauses)]
    <3>1. [worker[w] EXCEPT !.stage = s] \in Job(pauses)
      BY <2>0 DEF Job
    <3> QED
      BY <2>9, <3>1 DEF Typed
  <2>10. ASSUME NEW w \in Workers, CheckPause(w) PROVE Typed'
    BY <2>9, <2>10, DropIsTyped DEF CheckPause, Typed
  <2>11. ASSUME NEW w \in Workers, ResumePause(w) PROVE Typed'
    <3>1. [pause EXCEPT !.resumed = TRUE] \in Pause(pauses)
      BY DEF Typed, Pause
    <3> QED
      BY <2>9, <2>11, <3>1, DropIsTyped DEF ResumePause, Typed
  <2>12. ASSUME NEW w \in Workers, Start(w) PROVE Typed'
    BY <2>9, <2>12 DEF Start, Typed
  <2>13. ASSUME NEW w \in Workers, NEW n \in Forms, NodeRuns(w, n) PROVE Typed'
    <3>1. /\ [worker[w] EXCEPT !.waits = @ \cup {n}] \in Job(pauses)
          /\ [worker[w] EXCEPT !.done = @ \cup {n}] \in Job(pauses)
      BY <2>0 DEF Job
    <3>2. [form[n] EXCEPT !.status = "waiting"] \in Row
      BY <2>0 DEF Row, Statuses
    <3>3. CASE Waits(w, n)
      BY <2>13, <3>1, <3>2, <3>3 DEF NodeRuns, Waits, Typed
    <3>4. CASE GoesOn(w, n)
      <4>1. Answers(n) \subseteq People \cup {"timeout"}
        BY <2>0 DEF Answers, Row
      <4> QED
        BY <2>13, <3>1, <3>4, <4>1 DEF NodeRuns, GoesOn, Typed
    <3> QED
      BY <2>13, <3>3, <3>4 DEF NodeRuns
  <2>14. ASSUME NEW w \in Workers, Succeeds(w) \/ Fails(w) PROVE Typed'
    BY <2>14, OverIsTyped DEF Succeeds, Fails, Ends, Final, Typed
  <2>15. ASSUME NEW w \in Workers, GraphPauses(w) PROVE Typed'
    BY <2>9, <2>15 DEF GraphPauses, Typed
  <2>16. ASSUME NEW w \in Workers, PauseReads(w) PROVE Typed'
    <3>1. run \in {"running", "paused"}
          => [worker[w] EXCEPT !.stage = "saving", !.seen = run] \in Job(pauses)
      BY <2>0 DEF Job
    <3> QED
      BY <2>16, <3>1, OverIsTyped DEF PauseReads, Typed
  <2>17. ASSUME NEW w \in Workers, CreatePause(w) PROVE Typed'
    <3>1. pauses \in Nat /\ pauses + 1 \in Nat
      BY DEF Typed
    <3>2. [id |-> pauses + 1, resumed |-> FALSE, done |-> worker[w].done,
           waits |-> worker[w].waits] \in Pause(pauses + 1)
      BY <2>0, <3>1 DEF Job, Pause
    <3>3. Job(pauses) \subseteq Job(pauses + 1)
      BY <3>1 DEF Job
    <3>4. \A n \in Forms : [form[n] EXCEPT !.told = TRUE] \in Row
      BY <2>0 DEF Row
    <3>5. form' \in [Forms -> Row]
      BY <2>0, <2>17, <3>4 DEF CreatePause
    <3>6. worker' \in [Workers -> Job(pauses + 1)]
      BY <2>17, <3>3, OverIsTyped DEF CreatePause
    <3> QED
      BY <2>17, <3>1, <3>2, <3>5, <3>6 DEF CreatePause, Typed
  <2>18. ASSUME NEW w \in Workers, TaskEnds(w) PROVE Typed'
    <3>1. NoPause \in Pause(pauses)
      BY DEF Typed, NoPause, Pause
    <3> QED
      BY <2>18, <3>1, IdleIsJob DEF TaskEnds, Typed
  <2>19. ASSUME NEW w \in Workers, Dies(w) PROVE Typed'
    BY <2>19, IdleIsJob, FaultsAreBounded DEF Dies, Typed
  <2>20. CASE UNCHANGED vars
    BY <2>20 DEF vars, Typed
  <2> QED
    BY <2>1, <2>2, <2>3, <2>4, <2>5, <2>6, <2>7, <2>8, <2>10, <2>11, <2>12,
       <2>13, <2>14, <2>15, <2>16, <2>17, <2>18, <2>19, <2>20 DEF Next, ScanStep, WorkerStep
<1> QED
  BY <1>1, <1>2, PTL DEF Safety
-----------------------------------------------------------------------------
(***************************************************************************)
(* What a step of one worker does to the workers, and to nobody else.      *)
(***************************************************************************)
Moves(w, stage) ==
  /\ \A v \in Workers \ {w} : worker'[v] = worker[v]
  /\ Stage(w)' = stage

Keeps(w) == worker'[w].pause = worker[w].pause /\ worker'[w].waits = worker[w].waits

Quits(w, stage) ==
  /\ Moves(w, stage)
  /\ worker'[w].waits = {}

LEMMA WorkerMoves ==
  ASSUME Typed, NEW w \in Workers
  PROVE  /\ Start(w) => Moves(w, "running") /\ Keeps(w)
         /\ GraphPauses(w) => Moves(w, "pausing") /\ Keeps(w)
         /\ MayResume(w) /\ CheckPause(w) => Moves(w, "checked") /\ Keeps(w)
         /\ pause.id = worker[w].pause /\ ResumePause(w) => Moves(w, "resumed") /\ Keeps(w)
         /\ PauseReads(w) => \/ Moves(w, "saving") /\ Keeps(w)
                             \/ Quits(w, "over")
         /\ \A n \in Forms : NodeRuns(w, n) =>
              /\ Moves(w, "running")
              /\ worker'[w].pause = worker[w].pause
         /\ Drop(w) \/ Dies(w) \/ TaskEnds(w) => Quits(w, "idle")
         /\ Succeeds(w) \/ Fails(w) \/ CreatePause(w) => Quits(w, "over")
         /\ GetPause(w) => \/ Drop(w)
                           \/ /\ Quits(w, "loaded") /\ worker'[w].pause = pause.id
                              /\ pause.id # 0
<1> worker \in [Workers -> Job(pauses)] /\ worker[w] \in Job(pauses)
  BY DEF Typed
<1> USE DEF Moves, Keeps, Quits, Stage, Job, Idle
<1>1. Start(w) => Moves(w, "running") /\ Keeps(w)
  BY DEF Start
<1>2. GraphPauses(w) => Moves(w, "pausing") /\ Keeps(w)
  BY DEF GraphPauses
<1>3. MayResume(w) /\ CheckPause(w) => Moves(w, "checked") /\ Keeps(w)
  BY DEF CheckPause
<1>4. pause.id = worker[w].pause /\ ResumePause(w) => Moves(w, "resumed") /\ Keeps(w)
  BY DEF ResumePause
<1>5. PauseReads(w) => \/ Moves(w, "saving") /\ Keeps(w)
                       \/ Quits(w, "over")
  BY DEF PauseReads, Over
<1>6. ASSUME NEW n \in Forms, NodeRuns(w, n)
      PROVE  Moves(w, "running") /\ worker'[w].pause = worker[w].pause
  BY <1>6 DEF NodeRuns, Waits, GoesOn
<1>7. Drop(w) \/ Dies(w) \/ TaskEnds(w) => Quits(w, "idle")
  BY DEF Drop, Dies, TaskEnds
<1>8. Succeeds(w) \/ Fails(w) \/ CreatePause(w) => Quits(w, "over")
  <2>1. worker' = Over(w) => Quits(w, "over")
    BY DEF Over
  <2> QED
    BY <2>1 DEF Succeeds, Fails, Ends, CreatePause
<1>9. GetPause(w) => \/ Drop(w)
                     \/ /\ Quits(w, "loaded") /\ worker'[w].pause = pause.id
                        /\ pause.id # 0
  <2>1. CASE pause.id = 0
    BY <2>1 DEF GetPause
  <2>2. CASE pause.id # 0
    <3> DEFINE job == [Idle EXCEPT !.stage = "loaded", !.pause = pause.id, !.done = pause.done]
    <3>1. job.stage = "loaded" /\ job.pause = pause.id /\ job.waits = {}
      OBVIOUS
    <3>2. GetPause(w) => worker' = [worker EXCEPT ![w] = job]
      BY <2>2 DEF GetPause
    <3> HIDE DEF job, Idle
    <3> QED
      BY <2>2, <3>1, <3>2
  <2> QED
    BY <2>1, <2>2
<1> QED
  BY <1>1, <1>2, <1>3, <1>4, <1>5, <1>6, <1>7, <1>8, <1>9

(***************************************************************************)
(* What the requests and the scan leave alone.                             *)
(***************************************************************************)
Outside ==
  /\ UNCHANGED <<run, pause, pauses, worker>>
  /\ trouble \subseteq trouble'

LEMMA StepCases ==
  ASSUME [Next]_vars
  PROVE  \/ Outside
         \/ HandleGlobalTimeout
         \/ \E w \in Workers : WorkerStep(w) \/ Dies(w)
<1> USE DEF Outside, db, procs, history
<1>1. ASSUME NEW r \in People, NEW n \in Forms, EnsureFormActive(r, n) \/ MarkSubmitted(r, n)
      PROVE  Outside
  BY <1>1 DEF EnsureFormActive, MarkSubmitted, EnqueueResume
<1>2. ASSUME NEW n \in Forms, TimeIsOver(n) PROVE Outside
  BY <1>2 DEF TimeIsOver
<1>3. ASSUME ScanStep PROVE Outside \/ HandleGlobalTimeout
  BY <1>3 DEF ScanStep, ScanForms, TimeoutReads, MarkTimeout, EnqueueResume
<1>4. UNCHANGED vars => Outside
  BY DEF vars
<1> QED
  BY <1>1, <1>2, <1>3, <1>4 DEF Next

\* History is never rewritten.
LEMMA TroubleStays == ASSUME [Next]_vars PROVE trouble \subseteq trouble'
<1>1. Outside => trouble \subseteq trouble'
  BY DEF Outside
<1>2. HandleGlobalTimeout => trouble \subseteq trouble'
  BY DEF HandleGlobalTimeout
<1>3. ASSUME NEW w \in Workers, WorkerStep(w) \/ Dies(w) PROVE trouble \subseteq trouble'
  BY <1>3 DEF WorkerStep, Dies, GetPause, CheckPause, ResumePause, Drop, Start, NodeRuns,
     Succeeds, Fails, Ends, GraphPauses, PauseReads, CreatePause, TaskEnds, history
<1> QED
  BY <1>1, <1>2, <1>3, StepCases

-----------------------------------------------------------------------------
\* A worker that resumes holds a pause, and has met no form of it yet.
LEMMA WorkersHold == Safety => []WorkerInv
<1>1. Init => WorkerInv
  BY DEF Init, WorkerInv, Stage, Idle
<1>2. TypeOK /\ WorkerInv /\ [Next]_vars => WorkerInv'
  <2> SUFFICES ASSUME Typed, WorkerInv, [Next]_vars PROVE WorkerInv'
    BY TypedIsTypeOK
  <2> USE DEF WorkerInv, Stage, Moves, Keeps, Quits
  <2>1. CASE Outside \/ HandleGlobalTimeout
    BY <2>1 DEF Outside, HandleGlobalTimeout
  <2>2. ASSUME NEW w \in Workers, WorkerStep(w) \/ Dies(w) PROVE WorkerInv'
    <3>1. CASE ResumePause(w)
      BY <3>1, WorkerMoves DEF ResumePause
    <3>2. CASE CheckPause(w)
      BY <3>2, WorkerMoves DEF CheckPause
    <3>3. CASE WorkerStep(w) /\ ~ResumePause(w) /\ ~CheckPause(w)
      BY <3>3, WorkerMoves DEF WorkerStep
    <3>4. CASE Dies(w)
      BY <3>4, WorkerMoves
    <3> QED
      BY <2>2, <3>1, <3>2, <3>3, <3>4
  <2> QED
    BY <2>1, <2>2, StepCases
<1> QED
  BY <1>1, <1>2, TypeCorrect, PTL DEF Safety

-----------------------------------------------------------------------------
\* One worker executes the graph, and while it does nobody can resume the run.
LEMMA ExecutionHolds == Safety => []ExecutionInv
<1>1. Init => ExecutionInv
  BY DEF Init, ExecutionInv, Executing, Stage, Idle, ActivePause, NoPause
<1>2. TypeOK /\ WorkerInv /\ ExecutionInv /\ [Next]_vars => ExecutionInv'
  <2> SUFFICES ASSUME Typed, WorkerInv, ExecutionInv, [Next]_vars,
                      "twice" \notin trouble'
               PROVE  ExecutionInv'
    BY TypedIsTypeOK DEF ExecutionInv
  <2>0. "twice" \notin trouble
    BY TroubleStays
  <2> USE <2>0 DEF WorkerInv, ExecutionInv, Executing, Stage, ActivePause, Moves, Keeps, Quits
  <2>1. CASE Outside
    BY <2>1 DEF Outside
  <2>2. CASE HandleGlobalTimeout
    BY <2>2 DEF HandleGlobalTimeout, Typed, Pause
  <2>3. ASSUME NEW w \in Workers, GetPause(w) \/ Dies(w) PROVE ExecutionInv'
    BY <2>3, WorkerMoves DEF GetPause, Dies, db
  <2>4. ASSUME NEW w \in Workers, CheckPause(w) PROVE ExecutionInv'
    <3>1. CASE MayResume(w)
      <4>1. ActivePause /\ Executing = {}
        BY <2>4, <3>1 DEF CheckPause, MayResume
      <4>2. Executing' = {} /\ UNCHANGED pause
        BY <2>4, <3>1, <4>1, WorkerMoves DEF CheckPause, db
      <4> QED
        BY <4>1, <4>2
    <3>2. CASE ~MayResume(w)
      BY <2>4, <3>2, WorkerMoves DEF CheckPause, db
    <3> QED
      BY <3>1, <3>2
  <2>5. ASSUME NEW w \in Workers, ResumePause(w) PROVE ExecutionInv'
    <3>1. CASE pause.id = worker[w].pause
      <4>1. pause'.id = pause.id /\ pause'.resumed
        BY <2>5, <3>1 DEF ResumePause, Typed, Pause
      <4>2. \A v \in Workers \ {w} : ~(Stage(v) = "checked" /\ worker[v].pause = pause.id)
        BY <2>5, <3>1 DEF ResumePause
      <4>3. Moves(w, "resumed") /\ Keeps(w)
        BY <2>5, <3>1, WorkerMoves
      <4>4. Executing = {}
        BY <2>5, <3>1 DEF ResumePause
      <4>5. Executing' = {w}
        BY <4>3, <4>4
      <4>6. \A c \in Workers : Stage(c)' = "checked" => worker'[c].pause # pause.id
        BY <4>2, <4>3
      <4> QED
        BY <4>1, <4>5, <4>6
    <3>2. CASE pause.id # worker[w].pause
      BY <2>5, <3>2, WorkerMoves DEF ResumePause
    <3> QED
      BY <3>1, <3>2
  <2>6. ASSUME NEW w \in Workers, Start(w) \/ GraphPauses(w) PROVE ExecutionInv'
    BY <2>6, WorkerMoves DEF Start, GraphPauses
  <2>7. ASSUME NEW w \in Workers, NEW n \in Forms, NodeRuns(w, n) PROVE ExecutionInv'
    BY <2>7, WorkerMoves DEF NodeRuns
  <2>8. ASSUME NEW w \in Workers, Succeeds(w) \/ Fails(w) PROVE ExecutionInv'
    BY <2>8, WorkerMoves DEF Succeeds, Fails, Ends
  <2>9. ASSUME NEW w \in Workers, PauseReads(w) PROVE ExecutionInv'
    <3>1. Stage(w) = "pausing" /\ UNCHANGED pause
      BY <2>9 DEF PauseReads, db
    <3>2. (Moves(w, "saving") /\ Keeps(w)) \/ Quits(w, "over")
      BY <2>9, WorkerMoves
    <3> QED
      BY <3>1, <3>2
  <2>10. ASSUME NEW w \in Workers, CreatePause(w) PROVE ExecutionInv'
    <3>1. Executing' = {}
      BY <2>10, WorkerMoves DEF CreatePause
    <3> QED
      BY <3>1
  <2>11. ASSUME NEW w \in Workers, TaskEnds(w) PROVE ExecutionInv'
    <3>1. pause' = pause \/ pause'.id = 0
      BY <2>11 DEF TaskEnds, NoPause
    <3>2. Stage(w) = "over" /\ Quits(w, "idle")
      BY <2>11, WorkerMoves DEF TaskEnds
    <3>3. Executing' = Executing
      BY <3>2
    <3>4. \A c \in Workers : Stage(c)' = "checked" => Stage(c) = "checked" /\ worker'[c] = worker[c]
      BY <3>2
    <3> QED
      BY <3>1, <3>3, <3>4
  <2> QED
    BY <2>1, <2>2, <2>3, <2>4, <2>5, <2>6, <2>7, <2>8, <2>9, <2>10, <2>11, StepCases
    DEF WorkerStep
<1> QED
  BY <1>1, <1>2, TypeCorrect, WorkersHold, PTL DEF Safety

\* The graph of a run is executed by one worker at a time, unless two tasks
\* checked one pause before either resumed it.
THEOREM OneExecutionHolds == Safety => []OneExecution
<1>1. ExecutionInv => OneExecution
  BY DEF ExecutionInv, OneExecution
<1> QED
  BY <1>1, ExecutionHolds, PTL

-----------------------------------------------------------------------------
\* While the graph is executed the run has not ended, and a worker that has
\* passed the check of the current pause finds the run paused.
LEMMA EndHolds == Safety => []EndInv
<1>1. Init => EndInv
  BY DEF Init, EndInv, Executing, Stage, Idle, Final
<1>2. TypeOK /\ WorkerInv /\ ExecutionInv /\ EndInv /\ [Next]_vars => EndInv'
  <2> SUFFICES ASSUME Typed, WorkerInv, ExecutionInv, EndInv, [Next]_vars,
                      "twice" \notin trouble', "ended" \notin trouble'
               PROVE  EndInv'
    BY TypedIsTypeOK DEF EndInv
  <2>0. "twice" \notin trouble /\ "ended" \notin trouble
    BY TroubleStays
  <2> USE <2>0 DEF WorkerInv, ExecutionInv, EndInv, Executing, Stage, Moves, Keeps, Quits, Final
  <2>1. CASE Outside
    BY <2>1 DEF Outside
  <2>2. CASE HandleGlobalTimeout
    <3>1. \A w \in Workers : Stage(w) \in {"idle", "loaded", "over"}
      BY <2>2 DEF HandleGlobalTimeout
    <3>2. UNCHANGED worker
      BY <2>2 DEF HandleGlobalTimeout
    <3> QED
      BY <3>1, <3>2
  <2>3. ASSUME NEW w \in Workers, GetPause(w) \/ Dies(w) PROVE EndInv'
    BY <2>3, WorkerMoves DEF GetPause, Dies, db
  <2>4. ASSUME NEW w \in Workers, CheckPause(w) PROVE EndInv'
    <3>1. UNCHANGED <<run, pause>> /\ Stage(w) = "loaded"
      BY <2>4 DEF CheckPause, db
    <3>2. CASE MayResume(w)
      <4>1. Moves(w, "checked") /\ Keeps(w)
        BY <2>4, <3>2, WorkerMoves
      <4> QED
        BY <3>1, <3>2, <4>1 DEF MayResume
    <3>3. CASE ~MayResume(w)
      BY <2>4, <3>1, <3>3, WorkerMoves DEF CheckPause
    <3> QED
      BY <3>2, <3>3
  <2>5. ASSUME NEW w \in Workers, ResumePause(w) PROVE EndInv'
    <3>1. CASE pause.id = worker[w].pause
      <4>1. pause'.id = pause.id /\ run' = "running"
        BY <2>5, <3>1 DEF ResumePause, Typed, Pause
      <4>2. \A v \in Workers \ {w} : ~(Stage(v) = "checked" /\ worker[v].pause = pause.id)
        BY <2>5, <3>1 DEF ResumePause
      <4>3. Moves(w, "resumed") /\ Keeps(w)
        BY <2>5, <3>1, WorkerMoves
      <4> QED
        BY <4>1, <4>2, <4>3
    <3>2. CASE pause.id # worker[w].pause
      <4>1. UNCHANGED <<run, pause>> /\ Stage(w) = "checked" /\ Quits(w, "idle")
        BY <2>5, <3>2, WorkerMoves DEF ResumePause
      <4> QED
        BY <4>1
    <3> QED
      BY <3>1, <3>2
  <2>6. ASSUME NEW w \in Workers, Start(w) \/ GraphPauses(w) PROVE EndInv'
    <3>1. /\ w \in Executing /\ run' \in {"running", "paused"} /\ UNCHANGED pause
          /\ \E s \in {"running", "pausing"} : Moves(w, s)
      BY <2>6, WorkerMoves DEF Start, GraphPauses
    <3> QED
      BY <3>1
  <2>7. ASSUME NEW w \in Workers, NEW n \in Forms, NodeRuns(w, n) PROVE EndInv'
    <3>1. Stage(w) = "running" /\ UNCHANGED <<run, pause>> /\ Moves(w, "running")
      BY <2>7, WorkerMoves DEF NodeRuns
    <3> QED
      BY <3>1
  <2>8. ASSUME NEW w \in Workers, Succeeds(w) \/ Fails(w) PROVE EndInv'
    <3>1. Stage(w) = "running" /\ UNCHANGED pause /\ Quits(w, "over")
      BY <2>8, WorkerMoves DEF Succeeds, Fails, Ends
    <3> QED
      BY <3>1
  <2>9. ASSUME NEW w \in Workers, PauseReads(w) PROVE EndInv'
    <3>1. Stage(w) = "pausing" /\ UNCHANGED <<run, pause>>
      BY <2>9 DEF PauseReads, db
    <3>2. (Moves(w, "saving") /\ Keeps(w)) \/ Quits(w, "over")
      BY <2>9, WorkerMoves
    <3> QED
      BY <3>1, <3>2
  <2>10. ASSUME NEW w \in Workers, CreatePause(w) PROVE EndInv'
    <3>1. Stage(w) = "saving" /\ Quits(w, "over") /\ pause'.id = pauses + 1
      BY <2>10, WorkerMoves DEF CreatePause
    <3>2. Executing' = {}
      BY <3>1
    <3>3. \A c \in Workers : Stage(c)' = "checked" => worker'[c].pause # pauses + 1
      BY <3>1 DEF Typed, Job
    <3> QED
      BY <3>1, <3>2, <3>3
  <2>11. ASSUME NEW w \in Workers, TaskEnds(w) PROVE EndInv'
    <3>1. (pause' = pause \/ pause'.id = 0) /\ UNCHANGED run
      BY <2>11 DEF TaskEnds, NoPause
    <3>2. Stage(w) = "over" /\ Quits(w, "idle")
      BY <2>11, WorkerMoves DEF TaskEnds
    <3> QED
      BY <3>1, <3>2
  <2> QED
    BY <2>1, <2>2, <2>3, <2>4, <2>5, <2>6, <2>7, <2>8, <2>9, <2>10, <2>11, StepCases
    DEF WorkerStep
<1> QED
  BY <1>1, <1>2, TypeCorrect, WorkersHold, ExecutionHolds, PTL DEF Safety

\* A run that has ended stays as it ended, unless the global limit struck a run
\* that was not waiting, or a pause was resumed twice.
THEOREM EndStays == Safety => EndIsFinal
<1>1. EndInv /\ [Next]_vars =>
      [(run \in Final) => run' = run \/ trouble' \cap {"ended", "twice"} # {}]_vars
  <2> SUFFICES ASSUME EndInv, [Next]_vars, run \in Final,
                      "ended" \notin trouble', "twice" \notin trouble'
               PROVE  run' = run
    OBVIOUS
  <2>0. "ended" \notin trouble /\ "twice" \notin trouble
    BY TroubleStays
  <2>1. Executing = {} /\ \A c \in Workers : ~(Stage(c) = "checked" /\ worker[c].pause = pause.id)
    BY <2>0 DEF EndInv, Final
  <2>2. CASE Outside
    BY <2>2 DEF Outside
  <2>3. CASE HandleGlobalTimeout
    BY <2>3 DEF HandleGlobalTimeout, Final
  <2>4. ASSUME NEW w \in Workers, WorkerStep(w) \/ Dies(w) PROVE run' = run
    BY <2>1, <2>4 DEF WorkerStep, Dies, GetPause, CheckPause, ResumePause, Start, NodeRuns,
       Succeeds, Fails, Ends, GraphPauses, PauseReads, CreatePause, TaskEnds, db, Executing, Stage
  <2> QED
    BY <2>2, <2>3, <2>4, StepCases
<1> QED
  BY <1>1, EndHolds, PTL DEF Safety, EndIsFinal

-----------------------------------------------------------------------------
(***************************************************************************)
(* A form that is answered while the run waits for it, or while a worker   *)
(* runs that has seen it unanswered, has a task on its way.                *)
(***************************************************************************)
Seen(n) ==
  \/ n \in pause.waits /\ ActivePause
  \/ \E w \in Executing : n \in worker[w].waits

LEMMA AnswersHold == Safety => []AnswerInv
<1>1. Init => AnswerInv
  BY DEF Init, AnswerInv, Unseen, Answered, Answers, TimedOut
<1>2. TypeOK /\ WorkerInv /\ ExecutionInv /\ AnswerInv /\ [Next]_vars => AnswerInv'
  <2> SUFFICES ASSUME Typed, WorkerInv, ExecutionInv, AnswerInv, [Next]_vars,
                      trouble' \cap {"lost", "twice", "ended"} = {}
               PROVE  Unseen' => UnderWay'
    BY TypedIsTypeOK DEF AnswerInv, UnderWay
  <2>0. trouble \cap {"lost", "twice", "ended"} = {}
    BY TroubleStays
  <2>a. Unseen <=> \E n \in Forms : Answered(n) /\ Seen(n)
    BY DEF Unseen, Seen
  <2>b. Unseen' <=> \E n \in Forms : Answered(n)' /\ Seen(n)'
    BY DEF Unseen, Seen
  <2> USE <2>0 DEF WorkerInv, AnswerInv, UnderWay, Moves, Keeps, Quits, Stage
  <2>c. ASSUME UNCHANGED form PROVE \A n \in Forms : Answered(n)' <=> Answered(n)
    BY <2>c DEF Answered, Answers
  <2>d. ASSUME UNCHANGED <<pause, worker>> PROVE \A n \in Forms : Seen(n)' <=> Seen(n)
    BY <2>d DEF Seen, ActivePause, Executing
  <2>1. ASSUME NEW r \in People, NEW n \in Forms, MarkSubmitted(r, n) PROVE UnderWay'
    BY <2>1 DEF MarkSubmitted, EnqueueResume, Typed
  <2>2. ASSUME NEW n \in Forms, MarkTimeout(n) PROVE UnderWay'
    <3>1. CASE scan.todo[n] = "global"
      BY <2>2, <3>1 DEF MarkTimeout, Typed, Scan
    <3>2. CASE scan.todo[n] # "global"
      BY <2>2, <3>2 DEF MarkTimeout, EnqueueResume, Typed
    <3> QED
      BY <3>1, <3>2
  <2>3. ASSUME NEW n \in Forms,
               (\E r \in People : EnsureFormActive(r, n)) \/ TimeIsOver(n) \/ TimeoutReads(n)
        PROVE  Unseen' => UnderWay'
    <3>1. UNCHANGED <<pause, worker, queued, trouble>> /\ scan'.stop = scan.stop
      BY <2>3 DEF EnsureFormActive, TimeIsOver, TimeoutReads, db, procs, history, Typed, Scan
    <3>2. \A m \in Forms : Answered(m)' <=> Answered(m)
      BY <2>3 DEF EnsureFormActive, TimeIsOver, TimeoutReads, db, Answered, Answers, Typed, Row
    <3> QED
      BY <2>a, <2>b, <2>d, <3>1, <3>2
  <2>4. CASE ScanForms
    <3>1. UNCHANGED <<form, pause, worker, queued, trouble>> /\ ~scan.stop
      BY <2>4 DEF ScanForms, db, history, Quiet
    <3> QED
      BY <2>a, <2>b, <2>c, <2>d, <3>1
  <2>5. CASE HandleGlobalTimeout
    <3>1. \A w \in Workers : worker[w].stage \in {"idle", "loaded", "over"}
      BY <2>5 DEF HandleGlobalTimeout
    <3>2. UNCHANGED worker /\ ~ActivePause'
      BY <2>5 DEF HandleGlobalTimeout, ActivePause, Typed, Pause
    <3> QED
      BY <3>1, <3>2 DEF Unseen, Executing
  <2>6. ASSUME NEW w \in Workers, WorkerStep(w) \/ Dies(w) PROVE Unseen' => UnderWay'
    <3>1. CASE Drop(w) /\ UNCHANGED <<form, pause>> /\ w \notin Executing
      <4>1. ~Unseen
        BY <3>1 DEF Drop
      <4>2. \A n \in Forms : Seen(n)' => Seen(n)
        BY <3>1, WorkerMoves DEF Seen, Executing, ActivePause
      <4> QED
        BY <2>a, <2>b, <2>c, <3>1, <4>1, <4>2
    <3>2. CASE GetPause(w) /\ ~Drop(w)
      BY <3>2, WorkerMoves
    <3>3. CASE CheckPause(w) /\ MayResume(w)
      BY <3>3, WorkerMoves
    <3>4. CASE ResumePause(w) /\ pause.id = worker[w].pause
      <4>1. Executing = {}
        BY <3>4 DEF ResumePause, ExecutionInv
      <4>2. Moves(w, "resumed") /\ worker'[w].waits = {}
        BY <3>4, WorkerMoves DEF ResumePause
      <4>3. ~ActivePause'
        BY <3>4 DEF ResumePause, ActivePause, Typed, Pause
      <4> QED
        BY <4>1, <4>2, <4>3 DEF Unseen, Executing
    <3>5. ASSUME /\ UNCHANGED <<queued, scan, trouble>>
                 /\ \A v \in Workers \ {w} : worker'[v] = worker[v]
                 /\ Stage(w) \notin {"loaded", "checked"}
                 /\ \A n \in Forms : Answered(n)' /\ Seen(n)' => Answered(n) /\ Seen(n)
          PROVE  Unseen' => UnderWay'
      BY <2>a, <2>b, <3>5
    <3>6. CASE Start(w) \/ GraphPauses(w)
      <4>1. Stage(w) \in {"resumed", "running"} /\ UNCHANGED <<form, pause, queued, scan, trouble>>
        BY <3>6 DEF Start, GraphPauses, history
      <4>2. Keeps(w) /\ \E s \in {"running", "pausing"} : Moves(w, s)
        BY <3>6, WorkerMoves
      <4>3. \A n \in Forms : Seen(n)' => Seen(n)
        BY <4>1, <4>2 DEF Seen, Executing, ActivePause
      <4> QED
        BY <2>c, <3>5, <4>1, <4>2, <4>3
    <3>7. ASSUME NEW n \in Forms, NodeRuns(w, n) PROVE Unseen' => UnderWay'
      <4>1. Stage(w) = "running" /\ UNCHANGED <<pause, queued, scan, trouble>> /\ Moves(w, "running")
        BY <3>7, WorkerMoves DEF NodeRuns
      <4>2. CASE Waits(w, n)
        <5>1. \A m \in Forms : Answered(m)' => Answered(m) /\ m # n
          BY <4>2 DEF Waits, Answered, Answers, TimedOut, Typed, Row
        <5>2. worker'[w].waits = worker[w].waits \cup {n}
          BY <4>2 DEF Waits, Typed, Job
        <5>3. \A m \in Forms \ {n} : Seen(m)' => Seen(m)
          BY <4>1, <5>2 DEF Seen, Executing, ActivePause
        <5> QED
          BY <3>5, <4>1, <5>1, <5>3
      <4>3. CASE GoesOn(w, n)
        <5>1. worker'[w].waits = worker[w].waits /\ UNCHANGED form
          BY <4>3 DEF GoesOn, Typed, Job
        <5>2. \A m \in Forms : Seen(m)' => Seen(m)
          BY <4>1, <5>1 DEF Seen, Executing, ActivePause
        <5> QED
          BY <2>c, <3>5, <4>1, <5>1, <5>2
      <4> QED
        BY <3>7, <4>2, <4>3 DEF NodeRuns
    <3>8. CASE Succeeds(w) \/ Fails(w) \/ PauseReads(w) \/ TaskEnds(w)
      <4>1. /\ Stage(w) \in {"running", "pausing", "over"}
            /\ UNCHANGED <<form, queued, scan, trouble>>
            /\ pause' \in {pause, NoPause}
        BY <3>8 DEF Succeeds, Fails, Ends, PauseReads, TaskEnds, db, history
      <4>2. \/ Stage(w) = "pausing" /\ Moves(w, "saving") /\ Keeps(w)
            \/ Quits(w, "over") \/ Quits(w, "idle")
        BY <3>8, WorkerMoves DEF PauseReads
      <4>3. \A n \in Forms : Seen(n)' => Seen(n)
        BY <4>1, <4>2 DEF Seen, Executing, ActivePause, NoPause
      <4> QED
        BY <2>c, <3>5, <4>1, <4>2, <4>3
    <3>9. CASE CreatePause(w)
      <4>1. /\ Stage(w) = "saving" /\ UNCHANGED <<queued, scan, trouble>> /\ Quits(w, "over")
            /\ pause'.waits = worker[w].waits
        BY <3>9, WorkerMoves DEF CreatePause, history
      <4>2. \A n \in Forms : Answered(n)' => Answered(n)
        BY <3>9 DEF CreatePause, Answered, Answers, Typed, Row
      <4>3. \A n \in Forms : Seen(n)' => Seen(n)
        BY <4>1 DEF Seen, Executing
      <4> QED
        BY <3>5, <4>1, <4>2, <4>3
    <3>10. CASE Dies(w)
      BY <3>10 DEF Dies
    <3> QED
      BY <2>6, <3>1, <3>2, <3>3, <3>4, <3>6, <3>7, <3>8, <3>9, <3>10
      DEF WorkerStep, GetPause, CheckPause, ResumePause, db, Executing
  <2>7. CASE UNCHANGED vars
    BY <2>a, <2>b, <2>c, <2>d, <2>7 DEF vars, db, procs, history
  <2> QED
    BY <2>1, <2>2, <2>3, <2>4, <2>5, <2>6, <2>7 DEF Next, ScanStep
<1> QED
  BY <1>1, <1>2, TypeCorrect, WorkersHold, ExecutionHolds, PTL DEF Safety

\* A run that pauses for a form which has been answered is about to go on or to
\* be stopped, unless a task was refused, died, or came too early.
THEOREM AnsweredRunsResume == Safety => []AnsweredRunIsResumed
<1>1. TypeOK /\ AnswerInv => AnsweredRunIsResumed
  BY TypedIsTypeOK DEF AnswerInv, AnsweredRunIsResumed, UnderWay, Unseen, Stage, Typed, Pause
<1> QED
  BY <1>1, TypeCorrect, AnswersHold, PTL

-----------------------------------------------------------------------------
\* A node went on with the answer that stands in the row of its form, unless two
\* requests, or a request and the scan, both found the form unanswered.
THEOREM TakenAnswersStand == Safety => []AnswerTakenStands
<1> DEFINE Inv == RequestInv /\ AnswerTakenStands
<1>1. Init => Inv
  BY DEF Init, RequestInv, AnswerTakenStands
<1>2. TypeOK /\ Inv /\ [Next]_vars => Inv'
  <2> SUFFICES ASSUME Typed, Inv, [Next]_vars, "overlap" \notin trouble' PROVE Inv'
    BY TypedIsTypeOK DEF RequestInv, AnswerTakenStands
  <2>0. "overlap" \notin trouble
    BY TroubleStays
  <2> USE <2>0 DEF RequestInv, AnswerTakenStands
  <2>1. ASSUME UNCHANGED <<active, taken>>, \A n \in Forms : Answers(n)' = Answers(n)
        PROVE  Inv'
    BY <2>1 DEF Answered
  <2>2. ASSUME UNCHANGED <<form, active, taken>> PROVE Inv'
    BY <2>1, <2>2 DEF Answers
  <2>3. ASSUME NEW r \in People, NEW n \in Forms, EnsureFormActive(r, n) PROVE Inv'
    <3>1. UNCHANGED <<form, taken>> /\ active' = active \cup {<<r, n>>}
      BY <2>3 DEF EnsureFormActive, db, history
    <3>2. ~Answered(n)
      BY <2>3 DEF EnsureFormActive, Active, Answered, Answers
    <3>3. \A m \in Forms : Answers(m)' = Answers(m)
      BY <3>1 DEF Answers
    <3> QED
      BY <3>1, <3>2, <3>3 DEF Answered
  <2>4. ASSUME NEW r \in People, NEW n \in Forms, MarkSubmitted(r, n) PROVE Inv'
    <3>1. UNCHANGED taken /\ active' = active \ {<<r, n>>} /\ <<r, n>> \in active
      BY <2>4 DEF MarkSubmitted
    <3>2. ~\E q \in active \ {<<r, n>>} : q[2] = n
      BY <2>4 DEF MarkSubmitted, EnqueueResume, Overlap
    <3>3. \A m \in Forms \ {n} : Answers(m)' = Answers(m)
      BY <2>4 DEF MarkSubmitted, Answers, Typed
    <3>4. taken[n] = "none"
      BY <3>1 DEF Answered
    <3> QED
      BY <3>1, <3>2, <3>3, <3>4 DEF Answered
  <2>5. ASSUME NEW n \in Forms, TimeIsOver(n) PROVE Inv'
    <3>1. UNCHANGED <<active, taken>> /\ \A m \in Forms : Answers(m)' = Answers(m)
      BY <2>5 DEF TimeIsOver, procs, history, Answers, Typed, Row
    <3> QED
      BY <2>1, <3>1
  <2>6. ASSUME NEW n \in Forms, MarkTimeout(n) PROVE Inv'
    <3>1. UNCHANGED <<active, taken>> /\ ~\E q \in active : q[2] = n
      BY <2>6 DEF MarkTimeout, EnqueueResume, Overlap
    <3>2. \A m \in Forms \ {n} : Answers(m)' = Answers(m)
      BY <2>6 DEF MarkTimeout, Answers, Typed
    <3>3. Answers(n) \subseteq Answers(n)'
      BY <2>6 DEF MarkTimeout, Answers, TimedOut, Typed, Row
    <3> QED
      BY <3>1, <3>2, <3>3 DEF Answered
  <2>7. CASE ScanForms \/ HandleGlobalTimeout \/ \E n \in Forms : TimeoutReads(n)
    BY <2>2, <2>7 DEF ScanForms, HandleGlobalTimeout, TimeoutReads, db, history
  <2>8. ASSUME NEW w \in Workers, NEW n \in Forms, NodeRuns(w, n) PROVE Inv'
    <3>1. UNCHANGED active
      BY <2>8 DEF NodeRuns
    <3>2. CASE Waits(w, n)
      <4>1. UNCHANGED taken /\ \A m \in Forms : Answers(m)' = Answers(m)
        BY <3>2 DEF Waits, Answered, Answers, TimedOut, Typed, Row
      <4> QED
        BY <2>1, <3>1, <4>1
    <3>3. CASE GoesOn(w, n)
      <4>1. UNCHANGED form
        BY <3>3 DEF GoesOn
      <4>2. \A m \in Forms : Answers(m)' = Answers(m)
        BY <4>1 DEF Answers
      <4>3. \A m \in Forms : taken'[m] = taken[m] \/ taken'[m] \in Answers(m)
        BY <3>3 DEF GoesOn, Typed
      <4> QED
        BY <3>1, <4>2, <4>3 DEF Answered
    <3> QED
      BY <2>8, <3>2, <3>3 DEF NodeRuns
  <2>9. ASSUME NEW w \in Workers, CreatePause(w) PROVE Inv'
    <3>1. UNCHANGED <<active, taken>> /\ \A m \in Forms : Answers(m)' = Answers(m)
      BY <2>9 DEF CreatePause, history, Answers, Typed, Row
    <3> QED
      BY <2>1, <3>1
  <2>10. ASSUME NEW w \in Workers,
                \/ GetPause(w) \/ CheckPause(w) \/ ResumePause(w) \/ Start(w)
                \/ Succeeds(w) \/ Fails(w) \/ GraphPauses(w) \/ PauseReads(w)
                \/ TaskEnds(w) \/ Dies(w)
         PROVE  Inv'
    BY <2>2, <2>10 DEF GetPause, CheckPause, ResumePause, Start, Succeeds, Fails, Ends,
       GraphPauses, PauseReads, TaskEnds, Dies, db, history
  <2>11. CASE UNCHANGED vars
    BY <2>2, <2>11 DEF vars, db, procs, history
  <2> QED
    BY <2>3, <2>4, <2>5, <2>6, <2>7, <2>8, <2>9, <2>10, <2>11 DEF Next, ScanStep, WorkerStep
<1> QED
  BY <1>1, <1>2, TypeCorrect, PTL DEF Safety
-----------------------------------------------------------------------------
(***************************************************************************)
(* Why RunEnds holds: there is always somebody to take the next step of a  *)
(* run that has not ended.  A worker that pauses the run holds the status  *)
(* paused until its pause is stored, and a pause that a worker comes from  *)
(* is resumed, so that the end of the task deletes no pause people wait in.*)
(***************************************************************************)
Undisturbed == "lost" \notin trouble /\ "twice" \notin trouble /\ "ended" \notin trouble

PeopleAreAsked == ActivePause /\ pause.waits # {} /\ \A n \in pause.waits : form[n].told

RunIsCarried ==
  Undisturbed =>
    /\ run = "running" => Executing # {}
    /\ run = "paused" => Executing # {} \/ PeopleAreAsked

PausingInv ==
  Undisturbed =>
    \A w \in Workers : Stage(w) \in {"pausing", "saving"} => run = "paused" /\ worker[w].waits # {}

Holding == {"resumed", "running", "pausing", "saving", "over"}

OriginInv ==
  \A w \in Workers :
    Stage(w) \in Holding /\ worker[w].pause = pause.id => pause.id = 0 \/ pause.resumed

\* A recipient who was told of a form stays told.
LEMMA ToldStays ==
  ASSUME Typed, [Next]_vars, NEW n \in Forms, form[n].told
  PROVE  form'[n].told
<1> form \in [Forms -> Row] /\ \A m \in Forms : form[m] \in Row
  BY DEF Typed
<1> USE DEF Row, db, procs, history
<1>1. ASSUME NEW r \in People, NEW m \in Forms, EnsureFormActive(r, m) \/ MarkSubmitted(r, m)
      PROVE  form'[n].told
  BY <1>1 DEF EnsureFormActive, MarkSubmitted
<1>2. ASSUME NEW m \in Forms, TimeIsOver(m) PROVE form'[n].told
  BY <1>2 DEF TimeIsOver
<1>3. ASSUME ScanStep PROVE form'[n].told
  <2>1. ScanForms \/ HandleGlobalTimeout => form' = form
    BY DEF ScanForms, HandleGlobalTimeout
  <2>2. ASSUME NEW m \in Forms PROVE TimeoutReads(m) => form' = form
    BY DEF TimeoutReads
  <2>3. ASSUME NEW m \in Forms, MarkTimeout(m) PROVE form'[n].told
    <3>1. \E x : form' = [form EXCEPT ![m].status = x]
      BY <2>3 DEF MarkTimeout
    <3> QED
      BY <3>1
  <2> QED
    BY <1>3, <2>1, <2>2, <2>3 DEF ScanStep
<1>4. ASSUME NEW w \in Workers, WorkerStep(w) \/ Dies(w) PROVE form'[n].told
  <2>1. CASE CreatePause(w)
    BY <2>1 DEF CreatePause
  <2>2. CASE \E m \in Forms : NodeRuns(w, m)
    BY <2>2 DEF NodeRuns, Waits, GoesOn
  <2>3. CASE WorkerStep(w) /\ ~CreatePause(w) /\ ~(\E m \in Forms : NodeRuns(w, m))
    BY <2>3 DEF WorkerStep, GetPause, CheckPause, ResumePause, Start, Succeeds, Fails, Ends,
       GraphPauses, PauseReads, TaskEnds
  <2>4. CASE Dies(w)
    BY <2>4 DEF Dies
  <2> QED
    BY <1>4, <2>1, <2>2, <2>3, <2>4
<1>5. UNCHANGED vars => form'[n].told
  BY DEF vars
<1> QED
  BY <1>1, <1>2, <1>3, <1>4, <1>5 DEF Next

\* A worker whose task is over still knows the pause it came from.
LEMMA OverKeeps ==
  ASSUME Typed, NEW w \in Workers, worker' = Over(w)
  PROVE  Quits(w, "over") /\ worker'[w].pause = worker[w].pause
BY DEF Typed, Job, Over, Idle, Quits, Moves, Stage

LEMMA OriginHolds == Safety => []OriginInv
<1>1. Init => OriginInv
  BY DEF Init, OriginInv, Stage, Idle, NoPause
<1>2. TypeOK /\ OriginInv /\ [Next]_vars => OriginInv'
  <2> SUFFICES ASSUME Typed, OriginInv, [Next]_vars PROVE OriginInv'
    BY TypedIsTypeOK
  <2> USE DEF OriginInv, Holding, Stage, Moves, Keeps, Quits
  <2>1. CASE Outside
    BY <2>1 DEF Outside
  <2>2. CASE HandleGlobalTimeout
    BY <2>2 DEF HandleGlobalTimeout, Typed, Pause
  <2>3. ASSUME NEW w \in Workers, GetPause(w) \/ Dies(w) PROVE OriginInv'
    BY <2>3, WorkerMoves DEF GetPause, Dies, db
  <2>4. ASSUME NEW w \in Workers, CheckPause(w) PROVE OriginInv'
    BY <2>4, WorkerMoves DEF CheckPause, db
  <2>5. ASSUME NEW w \in Workers, ResumePause(w) PROVE OriginInv'
    <3>1. CASE pause.id = worker[w].pause
      <4>1. pause'.id = pause.id /\ pause'.resumed
        BY <2>5, <3>1 DEF ResumePause, Typed, Pause
      <4> QED
        BY <4>1
    <3>2. CASE pause.id # worker[w].pause
      BY <2>5, <3>2, WorkerMoves DEF ResumePause
    <3> QED
      BY <3>1, <3>2
  <2>6. ASSUME NEW w \in Workers, Start(w) \/ GraphPauses(w) PROVE OriginInv'
    BY <2>6, WorkerMoves DEF Start, GraphPauses
  <2>7. ASSUME NEW w \in Workers, NEW n \in Forms, NodeRuns(w, n) PROVE OriginInv'
    BY <2>7, WorkerMoves DEF NodeRuns
  <2>8. ASSUME NEW w \in Workers, Succeeds(w) \/ Fails(w) PROVE OriginInv'
    <3>1. Stage(w) = "running" /\ UNCHANGED pause /\ worker' = Over(w)
      BY <2>8 DEF Succeeds, Fails, Ends
    <3> QED
      BY <3>1, OverKeeps
  <2>9. ASSUME NEW w \in Workers, PauseReads(w) PROVE OriginInv'
    <3>1. Stage(w) = "pausing" /\ UNCHANGED pause
      BY <2>9 DEF PauseReads, db
    <3>2. CASE run \in {"running", "paused"}
      <4>1. worker' = [worker EXCEPT ![w].stage = "saving", ![w].seen = run]
        BY <2>9, <3>2 DEF PauseReads
      <4>2. Moves(w, "saving") /\ Keeps(w)
        BY <4>1 DEF Typed, Job
      <4> QED
        BY <3>1, <4>2
    <3>3. CASE run \notin {"running", "paused"}
      <4>1. worker' = Over(w)
        BY <2>9, <3>3 DEF PauseReads
      <4> QED
        BY <3>1, <4>1, OverKeeps
    <3> QED
      BY <3>2, <3>3
  <2>10. ASSUME NEW w \in Workers, CreatePause(w) PROVE OriginInv'
    <3>1. pause'.id = pauses + 1 /\ worker' = Over(w)
      BY <2>10 DEF CreatePause
    <3>2. \A c \in Workers : worker'[c].pause = worker[c].pause
      BY <3>1, OverKeeps
    <3>3. \A c \in Workers : worker[c].pause # pauses + 1
      BY DEF Typed, Job
    <3> QED
      BY <3>1, <3>2, <3>3
  <2>11. ASSUME NEW w \in Workers, TaskEnds(w) PROVE OriginInv'
    <3>1. pause' = pause \/ pause'.id = 0
      BY <2>11 DEF TaskEnds, NoPause
    <3>a. Quits(w, "idle")
      BY <2>11, WorkerMoves
    <3>2. \A c \in Workers : Stage(c)' \in Holding => worker'[c] = worker[c]
      BY <3>a
    <3>3. CASE pause' = pause
      BY <3>2, <3>3
    <3>4. CASE pause'.id = 0
      BY <3>4
    <3> QED
      BY <3>1, <3>3, <3>4
  <2> QED
    BY <2>1, <2>2, <2>3, <2>4, <2>5, <2>6, <2>7, <2>8, <2>9, <2>10, <2>11, StepCases
    DEF WorkerStep
<1> QED
  BY <1>1, <1>2, TypeCorrect, PTL DEF Safety

\* A run that has not ended is executed by a worker, or it waits in a stored
\* pause for forms whose recipients have been told, unless a task was refused or
\* died, a pause was resumed twice, or the global limit struck a run under way.
THEOREM RunsAreCarried == Safety => []RunIsCarried
<1>1. Init => RunIsCarried /\ PausingInv
  BY DEF Init, RunIsCarried, PausingInv, Executing, Stage, Idle
<1>2. /\ TypeOK /\ ExecutionInv /\ OriginInv /\ RunIsCarried /\ PausingInv
      /\ [Next]_vars
      => RunIsCarried' /\ PausingInv'
  <2> DEFINE Carried == /\ run' = "running" => Executing' # {}
                        /\ run' = "paused" => Executing' # {} \/ PeopleAreAsked'
             Pausing == \A w \in Workers : Stage(w)' \in {"pausing", "saving"} =>
                          run' = "paused" /\ worker'[w].waits # {}
  <2> SUFFICES ASSUME Typed, ExecutionInv, OriginInv, RunIsCarried, PausingInv, [Next]_vars, Undisturbed'
               PROVE  Carried /\ Pausing
    BY TypedIsTypeOK DEF RunIsCarried, PausingInv
  <2>0. /\ Undisturbed
        /\ run = "running" => Executing # {}
        /\ run = "paused" => Executing # {} \/ PeopleAreAsked
        /\ \A w \in Workers : Stage(w) \in {"pausing", "saving"} => run = "paused" /\ worker[w].waits # {}
        /\ \A v, w \in Executing : v = w
    BY TroubleStays DEF Undisturbed, RunIsCarried, PausingInv, ExecutionInv
  <2>a. ASSUME pause' = pause, PeopleAreAsked PROVE PeopleAreAsked'
    <3>1. \A n \in pause.waits : n \in Forms
      BY DEF Typed, Pause
    <3> QED
      BY <2>a, <3>1, ToldStays DEF PeopleAreAsked, ActivePause
  \* A step that changes no status and leaves whoever executes where he was.
  <2>b. ASSUME UNCHANGED <<run, pause>>, NEW w \in Workers, NEW x, Moves(w, x),
               w \notin Executing, x \notin {"resumed", "running", "pausing", "saving"}
        PROVE  Carried /\ Pausing
    <3>1. Executing' = Executing
      BY <2>b DEF Moves, Executing, Stage
    <3>2. Pausing
      BY <2>0, <2>b DEF Moves, Stage
    <3> QED
      BY <2>0, <2>a, <2>b, <3>1, <3>2
  \* A step of a worker that goes on executing a run that has not ended.
  <2>c. ASSUME NEW w \in Workers, NEW x \in {"resumed", "running"}, Moves(w, x),
               \A v \in Workers \ {w} : Stage(v) \notin {"pausing", "saving"}
        PROVE  Carried /\ Pausing
    BY <2>c DEF Moves, Executing, Stage
  <2>1. CASE Outside
    <3>1. Executing' = Executing /\ Pausing
      BY <2>0, <2>1 DEF Outside, Executing, Stage
    <3> QED
      BY <2>0, <2>1, <2>a, <3>1 DEF Outside
  <2>2. CASE HandleGlobalTimeout
    <3>1. run' = "stopped" /\ UNCHANGED worker
      BY <2>2 DEF HandleGlobalTimeout
    <3>2. \A w \in Workers : Stage(w) \in {"idle", "loaded", "over"}
      BY <2>2 DEF HandleGlobalTimeout, Undisturbed, Stage
    <3> QED
      BY <3>1, <3>2 DEF Stage
  <2>3. ASSUME NEW w \in Workers, GetPause(w) PROVE Carried /\ Pausing
    <3>1. UNCHANGED <<run, pause>> /\ Stage(w) = "idle"
      BY <2>3 DEF GetPause, db, Stage
    <3>2. Moves(w, "idle") \/ Moves(w, "loaded")
      BY <2>3, WorkerMoves DEF Quits
    <3> QED
      BY <2>b, <3>1, <3>2 DEF Executing, Stage
  <2>4. ASSUME NEW w \in Workers, CheckPause(w) PROVE Carried /\ Pausing
    <3>1. UNCHANGED <<run, pause>> /\ Stage(w) = "loaded"
      BY <2>4 DEF CheckPause, db, Stage
    <3>2. Moves(w, "idle") \/ Moves(w, "checked")
      BY <2>4, WorkerMoves DEF CheckPause, Quits
    <3> QED
      BY <2>b, <3>1, <3>2 DEF Executing, Stage
  <2>5. ASSUME NEW w \in Workers, ResumePause(w) PROVE Carried /\ Pausing
    <3>1. CASE pause.id = worker[w].pause
      <4>1. Moves(w, "resumed") /\ Stage(w) = "checked"
        BY <2>5, <3>1, WorkerMoves DEF ResumePause, Stage
      <4>2. Executing = {}
        BY <2>0, <3>1, <4>1 DEF ExecutionInv, Undisturbed
      <4> QED
        BY <2>c, <4>1, <4>2 DEF Executing, Stage
    <3>2. CASE pause.id # worker[w].pause
      <4>1. UNCHANGED <<run, pause>> /\ Stage(w) = "checked" /\ Moves(w, "idle")
        BY <2>5, <3>2, WorkerMoves DEF ResumePause, Quits, Stage
      <4> QED
        BY <2>b, <4>1 DEF Executing, Stage
    <3> QED
      BY <3>1, <3>2
  <2>6. ASSUME NEW w \in Workers, Start(w) \/ \E n \in Forms : NodeRuns(w, n) PROVE Carried /\ Pausing
    <3>1. w \in Executing /\ Moves(w, "running")
      BY <2>6, WorkerMoves DEF Start, NodeRuns, Executing
    <3>2. \A v \in Workers \ {w} : Stage(v) \notin {"pausing", "saving"}
      BY <2>0, <3>1 DEF Executing, Stage
    <3> QED
      BY <2>c, <3>1, <3>2
  <2>7. ASSUME NEW w \in Workers, Succeeds(w) \/ Fails(w) PROVE Carried /\ Pausing
    <3>1. run' \in Final /\ Stage(w) = "running" /\ Moves(w, "over")
      BY <2>7, WorkerMoves DEF Succeeds, Fails, Ends, Final, Quits, Stage
    <3>2. \A v \in Workers : Stage(v)' \notin {"pausing", "saving"}
      BY <2>0, <3>1 DEF Executing, Moves, Stage
    <3> QED
      BY <3>1, <3>2 DEF Final
  <2>8. ASSUME NEW w \in Workers, GraphPauses(w) PROVE Carried /\ Pausing
    <3>1. run' = "paused" /\ Stage(w) = "running" /\ Moves(w, "pausing") /\ Keeps(w) /\ worker[w].waits # {}
      BY <2>8, WorkerMoves DEF GraphPauses, Stage
    <3>2. w \in Executing' /\ \A v \in Workers \ {w} : Stage(v)' \notin {"pausing", "saving"}
      BY <2>0, <3>1 DEF Executing, Moves, Stage
    <3> QED
      BY <3>1, <3>2 DEF Keeps
  <2>9. ASSUME NEW w \in Workers, PauseReads(w) PROVE Carried /\ Pausing
    <3>1. run = "paused" /\ run' = run /\ Stage(w) = "pausing" /\ worker[w].waits # {}
      BY <2>0, <2>9 DEF PauseReads, db, Stage
    <3>2. worker' = [worker EXCEPT ![w].stage = "saving", ![w].seen = run]
      BY <2>9, <3>1 DEF PauseReads
    <3>3. Moves(w, "saving") /\ Keeps(w)
      BY <3>2 DEF Typed, Job, Moves, Keeps, Stage
    <3>4. w \in Executing' /\ \A v \in Workers \ {w} : Stage(v)' \notin {"pausing", "saving"}
      BY <2>0, <3>1, <3>3 DEF Executing, Moves, Stage
    <3> QED
      BY <3>1, <3>3, <3>4 DEF Keeps
  <2>10. ASSUME NEW w \in Workers, CreatePause(w) PROVE Carried /\ Pausing
    <3>1. /\ Stage(w) = "saving" /\ Moves(w, "over") /\ worker[w].waits # {}
          /\ run' = "paused"
      BY <2>0, <2>10, WorkerMoves DEF CreatePause, Quits, Stage
    <3>2. pause'.id = pauses + 1 /\ pause'.resumed = FALSE /\ pause'.waits = worker[w].waits
      BY <2>10 DEF CreatePause
    <3>3. pauses + 1 # 0 /\ worker[w].waits \subseteq Forms /\ form \in [Forms -> Row]
      BY DEF Typed, Job
    <3>4. \A n \in worker[w].waits : form'[n].told
      BY <2>10, <3>3 DEF CreatePause, Row
    <3>5. PeopleAreAsked'
      BY <3>1, <3>2, <3>3, <3>4 DEF PeopleAreAsked, ActivePause
    <3>6. \A v \in Workers : Stage(v)' \notin {"pausing", "saving"}
      BY <2>0, <3>1 DEF Executing, Moves, Stage
    <3> QED
      BY <3>1, <3>5, <3>6
  <2>11. ASSUME NEW w \in Workers, TaskEnds(w) PROVE Carried /\ Pausing
    <3>1. UNCHANGED run /\ Stage(w) = "over" /\ Moves(w, "idle")
      BY <2>11, WorkerMoves DEF TaskEnds, Quits, Stage
    <3>2. CASE pause' = pause
      BY <2>b, <3>1, <3>2 DEF Executing, Stage
    <3>3. CASE pause' # pause
      <4>1. pause.id = worker[w].pause /\ pause.id # 0
        BY <2>11, <3>3 DEF TaskEnds, Deleted
      <4>2. ~PeopleAreAsked
        BY <3>1, <4>1 DEF OriginInv, Holding, PeopleAreAsked, ActivePause
      <4>3. Executing' = Executing /\ Pausing
        BY <2>0, <3>1 DEF Executing, Moves, Stage
      <4> QED
        BY <2>0, <3>1, <4>2, <4>3
    <3> QED
      BY <3>2, <3>3
  <2>12. ASSUME NEW w \in Workers, Dies(w) PROVE FALSE
    BY <2>12 DEF Dies, Undisturbed
  <2> QED
    BY <2>1, <2>2, <2>3, <2>4, <2>5, <2>6, <2>7, <2>8, <2>9, <2>10, <2>11, <2>12, StepCases
    DEF WorkerStep
<1> QED
  BY <1>1, <1>2, TypeCorrect, ExecutionHolds, OriginHolds, PTL DEF Safety
=============================================================================
