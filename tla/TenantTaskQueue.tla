--------------------------- MODULE TenantTaskQueue ---------------------------
(***************************************************************************)
(* The tenant-isolated task queue of the indexing and RAG pipeline tasks.  *)
(*                                                                         *)
(* A request handler (DocumentTaskProxyBase, RagPipelineTaskProxy) either  *)
(* delivers its task to Celery at once or, when the Redis flag of the      *)
(* tenant says that a task is already running, pushes it on the tenant's   *)
(* Redis list.  A Celery worker that ends a task pulls the next waiting    *)
(* ones from the list and delivers them, or clears the flag when it finds  *)
(* none.  The flag and the list are read and written by separate Redis     *)
(* commands; each command is one action here, so that every interleaving   *)
(* of handlers and workers is a behaviour.                                 *)
(*                                                                         *)
(* One tenant and one unique_key are modelled: no key is shared between    *)
(* two queues.  Each member of Tasks is one request and the task it sends. *)
(***************************************************************************)
EXTENDS Naturals, Sequences, FiniteSets

CONSTANTS
  Tasks,          \* the tasks the tenant's requests send
  Workers,        \* the Celery worker processes
  Concurrency,    \* TENANT_ISOLATED_TASK_CONCURRENCY
  BillingModes,   \* the values features.billing.enabled takes
  FlagMayExpire,  \* whether the one hour TTL of the flag may run out
  MaxFaults,      \* bound on worker crashes and broker errors
  NoTask

ASSUME QueueAssumption ==
  /\ Concurrency \in Nat
  /\ BillingModes \subseteq BOOLEAN
  /\ FlagMayExpire \in BOOLEAN
  /\ MaxFaults \in Nat
  /\ NoTask \notin Tasks

VARIABLES
  flag,     \* the key tenant_{unique_key}_task is present
  queue,    \* the list tenant_self_{unique_key}_task_queue, next one first
  broker,   \* tasks delivered to Celery that no worker has taken
  client,   \* where the handler of each request is
  pc,       \* what each worker is doing
  job,      \* the task each worker runs or has just run
  pulled,   \* next_tasks, what the worker has still to deliver
  faults,   \* crashes and broker errors so far
  pushed,   \* history: the tasks pushed on the list, in order
  taken,    \* history: the tasks pulled from it, in order
  late,     \* history: the tasks pushed when nobody would look again
  ended,    \* history: the tasks that ran to their end
  lost      \* history: the tasks a fault has dropped

redis == <<flag, queue>>
celery == <<pc, job, pulled>>
history == <<pushed, taken, late, ended, lost>>
vars == <<redis, broker, client, celery, faults, history>>

ClientStates == {"new", "sawFlag", "sawClear", "armed", "queued", "sent", "failed"}
WorkerStates == {"idle", "running", "pulling", "dispatch", "send", "clear"}

(***************************************************************************)
(* Somebody who has still to look at the list: a task that runs or will    *)
(* run ends with a pull, and a worker that dispatches starts such tasks.   *)
(***************************************************************************)
WillPull ==
  \/ broker # {}
  \/ \E t \in Tasks : client[t] \in {"sawClear", "armed"}
  \/ \E w \in Workers : pc[w] \in {"running", "pulling", "dispatch", "send"}

Init ==
  /\ flag = FALSE
  /\ queue = <<>>
  /\ broker = {}
  /\ client = [t \in Tasks |-> "new"]
  /\ pc = [w \in Workers |-> "idle"]
  /\ job = [w \in Workers |-> NoTask]
  /\ pulled = [w \in Workers |-> <<>>]
  /\ faults = 0
  /\ pushed = <<>>
  /\ taken = <<>>
  /\ late = {}
  /\ ended = {}
  /\ lost = {}

-----------------------------------------------------------------------------
(* The request handler *)

(***************************************************************************)
(* _send_to_direct_queue: a tenant without billing is not isolated.        *)
(***************************************************************************)
SendDirect(t) ==
  /\ client[t] = "new"
  /\ FALSE \in BillingModes
  /\ client' = [client EXCEPT ![t] = "sent"]
  /\ broker' = broker \union {t}
  /\ UNCHANGED <<redis, celery, faults, history>>

(***************************************************************************)
(* _send_to_tenant_queue reads the flag first.                             *)
(***************************************************************************)
GetTaskKey(t) ==
  /\ client[t] = "new"
  /\ TRUE \in BillingModes
  /\ client' = [client EXCEPT ![t] = IF flag THEN "sawFlag" ELSE "sawClear"]
  /\ UNCHANGED <<redis, broker, celery, faults, history>>

PushTask(t) ==
  /\ client[t] = "sawFlag"
  /\ client' = [client EXCEPT ![t] = "queued"]
  /\ queue' = Append(queue, t)
  /\ pushed' = Append(pushed, t)
  /\ late' = IF WillPull THEN late ELSE late \union {t}
  /\ UNCHANGED <<flag, broker, celery, faults, taken, ended, lost>>

SetTaskWaitingTime(t) ==
  /\ client[t] = "sawClear"
  /\ client' = [client EXCEPT ![t] = "armed"]
  /\ flag' = TRUE
  /\ UNCHANGED <<queue, broker, celery, faults, history>>

Deliver(t) ==
  /\ client[t] = "armed"
  /\ client' = [client EXCEPT ![t] = "sent"]
  /\ broker' = broker \union {t}
  /\ UNCHANGED <<redis, celery, faults, history>>

(***************************************************************************)
(* The broker refuses the task after the flag was set: the request fails.  *)
(***************************************************************************)
DeliverFails(t) ==
  /\ client[t] = "armed"
  /\ faults < MaxFaults
  /\ faults' = faults + 1
  /\ client' = [client EXCEPT ![t] = "failed"]
  /\ UNCHANGED <<redis, broker, celery, history>>

-----------------------------------------------------------------------------
(* The Celery worker *)

Goto(w, state) == pc' = [pc EXCEPT ![w] = state]

(***************************************************************************)
(* A worker takes a task.  Celery acknowledges it before it runs, so a     *)
(* crash does not deliver it again; two Celery queues and several workers  *)
(* give no order between tasks.                                            *)
(***************************************************************************)
Start(w, t) ==
  /\ pc[w] = "idle"
  /\ t \in broker
  /\ broker' = broker \ {t}
  /\ job' = [job EXCEPT ![w] = t]
  /\ Goto(w, "running")
  /\ UNCHANGED <<redis, client, pulled, faults, history>>

(***************************************************************************)
(* Where the end of a task leads: the finally block, which pulls.  The     *)
(* variants named "..._" are mistakes that a property below must catch,    *)
(* here a finally block that only clears and one that is skipped.          *)
(***************************************************************************)
AfterTask_Clears == "clear"
AfterTask_Skips == "idle"
AfterTask == "pulling"

(***************************************************************************)
(* The task's own work ends, normally or by an exception: the finally      *)
(* block follows in both cases.                                            *)
(***************************************************************************)
Finish(w) ==
  /\ pc[w] = "running"
  /\ ended' = ended \union {job[w]}
  /\ Goto(w, AfterTask)
  /\ UNCHANGED <<redis, broker, client, job, pulled, faults, pushed, taken, late, lost>>

(***************************************************************************)
(* The list after one rpop; lindex in its place is a mistake.              *)
(***************************************************************************)
AfterPop_Kept == queue
AfterPop == Tail(queue)

PullsLeft_OneMore(w) == Len(pulled[w]) <= Concurrency
PullsLeft(w) == Len(pulled[w]) < Concurrency

(***************************************************************************)
(* pull_tasks: one rpop that finds a task.                                 *)
(***************************************************************************)
Pull(w) ==
  /\ pc[w] = "pulling"
  /\ PullsLeft(w)
  /\ queue # <<>>
  /\ queue' = AfterPop
  /\ pulled' = [pulled EXCEPT ![w] = Append(@, Head(queue))]
  /\ taken' = Append(taken, Head(queue))
  /\ UNCHANGED <<flag, broker, client, pc, job, faults, pushed, late, ended, lost>>

(***************************************************************************)
(* pull_tasks returns: count tasks were pulled (none when count is 0), or  *)
(* an rpop found the list empty.                                           *)
(***************************************************************************)
AfterPull(w) == IF pulled[w] = <<>> THEN "clear" ELSE "dispatch"

PullDone(w) ==
  /\ pc[w] = "pulling"
  /\ ~PullsLeft(w) \/ queue = <<>>
  /\ Goto(w, AfterPull(w))
  /\ UNCHANGED <<redis, broker, client, job, pulled, faults, history>>

(***************************************************************************)
(* One turn of the loop over next_tasks: the flag, then the delivery.      *)
(***************************************************************************)
KeepFlag(w) ==
  /\ pc[w] = "dispatch"
  /\ flag' = TRUE
  /\ Goto(w, "send")
  /\ UNCHANGED <<queue, broker, client, job, pulled, faults, history>>

Send(w) ==
  /\ pc[w] = "send"
  /\ broker' = broker \union {Head(pulled[w])}
  /\ pulled' = [pulled EXCEPT ![w] = Tail(@)]
  /\ Goto(w, IF Tail(pulled[w]) = <<>> THEN "idle" ELSE "dispatch")
  /\ UNCHANGED <<redis, client, job, faults, history>>

ClearFlag(w) ==
  /\ pc[w] = "clear"
  /\ flag' = FALSE
  /\ Goto(w, "idle")
  /\ UNCHANGED <<queue, broker, client, job, pulled, faults, history>>

(***************************************************************************)
(* What a worker holds when it stops: the task it runs and the tasks it    *)
(* has pulled and not delivered.                                           *)
(***************************************************************************)
Held(w) ==
  {pulled[w][i] : i \in DOMAIN pulled[w]}
    \union (IF pc[w] = "running" THEN {job[w]} ELSE {})

(***************************************************************************)
(* The worker process dies and is started again; or the broker refuses a   *)
(* delivery, the exception leaves the loop, and next_tasks goes with it.   *)
(* The tasks were acknowledged when taken; Celery does not send them again.*)
(***************************************************************************)
WorkerFails(w) ==
  /\ pc[w] # "idle"
  /\ faults < MaxFaults
  /\ faults' = faults + 1
  /\ lost' = lost \union Held(w)
  /\ pulled' = [pulled EXCEPT ![w] = <<>>]
  /\ Goto(w, "idle")
  /\ UNCHANGED <<redis, broker, client, job, pushed, taken, late, ended>>

(***************************************************************************)
(* The TTL given by set_task_waiting_time runs out.                        *)
(***************************************************************************)
ExpireFlag ==
  /\ FlagMayExpire
  /\ flag
  /\ flag' = FALSE
  /\ UNCHANGED <<queue, broker, client, celery, faults, history>>

-----------------------------------------------------------------------------
ClientStep(t) ==
  \/ SendDirect(t)
  \/ GetTaskKey(t)
  \/ PushTask(t)
  \/ SetTaskWaitingTime(t)
  \/ Deliver(t)

WorkerStep(w) ==
  \/ \E t \in Tasks : Start(w, t)
  \/ Finish(w)
  \/ Pull(w)
  \/ PullDone(w)
  \/ KeepFlag(w)
  \/ Send(w)
  \/ ClearFlag(w)

Next ==
  \/ \E t \in Tasks : ClientStep(t)
  \/ \E t \in Tasks : DeliverFails(t)
  \/ \E w \in Workers : WorkerStep(w)
  \/ \E w \in Workers : WorkerFails(w)
  \/ ExpireFlag

(***************************************************************************)
(* A handler and a worker that can take a step do (but a request may never *)
(* be made), and a TTL that nobody renews runs out.                        *)
(***************************************************************************)
Fairness ==
  /\ \A t \in Tasks : WF_vars(client[t] # "new" /\ ClientStep(t))
  /\ \A w \in Workers : WF_vars(WorkerStep(w))
  /\ WF_vars(ExpireFlag)

Safety == Init /\ [][Next]_vars
Spec == Safety /\ Fairness

-----------------------------------------------------------------------------
TypeOK ==
  /\ flag \in BOOLEAN
  /\ queue \in Seq(Tasks)
  /\ broker \in SUBSET Tasks
  /\ client \in [Tasks -> ClientStates]
  /\ pc \in [Workers -> WorkerStates]
  /\ job \in [Workers -> Tasks \union {NoTask}]
  /\ pulled \in [Workers -> Seq(Tasks)]
  /\ faults \in 0..MaxFaults
  /\ pushed \in Seq(Tasks)
  /\ taken \in Seq(Tasks)
  /\ late \in SUBSET Tasks
  /\ ended \in SUBSET (Tasks \union {NoTask})
  /\ lost \in SUBSET (Tasks \union {NoTask})

(***************************************************************************)
(* The list is first in, first out, and loses and repeats nothing: what    *)
(* was pulled, then what waits, is what was pushed ("Use rpop to get the   *)
(* next task from the queue (FIFO order)").                                *)
(***************************************************************************)
QueueIsFifo == pushed = taken \o queue

(***************************************************************************)
(* Without faults, a task that waits is either pushed after everybody had  *)
(* looked for the last time, or somebody has still to look at the list.    *)
(***************************************************************************)
WaitingTaskHasPuller ==
  faults = 0 /\ Concurrency > 0 =>
    \A i \in DOMAIN queue : queue[i] \notin late => WillPull

(***************************************************************************)
(* Without faults, a set flag belongs to somebody who will clear it or     *)
(* hand it on: no later request waits behind a flag left by nobody.        *)
(***************************************************************************)
SetFlagHasOwner ==
  faults = 0 /\ flag => WillPull \/ \E w \in Workers : pc[w] = "clear"

(***************************************************************************)
(* The tasks of the tenant that Celery has or will have without any new    *)
(* request, and the requests that did not find the flag set.               *)
(***************************************************************************)
Busy == {w \in Workers : pc[w] # "idle"}
Heads == {t \in Tasks : client[t] = "sent"}

(***************************************************************************)
(* With the default concurrency of one, a running task is replaced by at   *)
(* most one other: the tenant occupies no more of Celery than the requests *)
(* that delivered their own task, however many tasks wait on the list.     *)
(***************************************************************************)
ChainsBounded ==
  Concurrency = 1 => Cardinality(broker) + Cardinality(Busy) <= Cardinality(Heads)

-----------------------------------------------------------------------------
(***************************************************************************)
(* What the queue promises about one task (module TaskDelivery).           *)
(***************************************************************************)
Waiting(t) ==
  \/ \E i \in DOMAIN queue : queue[i] = t
  \/ \E w \in Workers : \E i \in DOMAIN pulled[w] : pulled[w][i] = t
  \/ t \in broker

Running(t) == \E w \in Workers : pc[w] = "running" /\ job[w] = t

Status(t) ==
  CASE Running(t)  -> "running"
    [] ~Running(t) /\ Waiting(t) -> "accepted"
    [] ~Running(t) /\ ~Waiting(t) /\ t \in ended -> "ended"
    [] ~Running(t) /\ ~Waiting(t) /\ t \notin ended /\ t \in lost -> "lost"
    [] OTHER -> "new"

Delivery == INSTANCE TaskDelivery WITH
  status <- [t \in Tasks |-> Status(t)], failed <- faults > 0

(***************************************************************************)
(* Each task runs at most once and, when nothing fails, none is dropped:   *)
(* every step of the queue is a step of TaskDelivery or changes no status. *)
(***************************************************************************)
ImplementsDelivery == Delivery!Spec

(***************************************************************************)
(* A task that waits on the list, pushed while somebody had still to look  *)
(* at it, runs to its end, if nothing fails.                               *)
(***************************************************************************)
WaitingTaskEnds ==
  \A t \in Tasks :
    (t \notin late /\ \E i \in DOMAIN queue : queue[i] = t) ~> t \in ended \/ faults > 0
=============================================================================
