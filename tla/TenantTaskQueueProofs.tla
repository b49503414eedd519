------------------------ MODULE TenantTaskQueueProofs ------------------------
(***************************************************************************)
(* What holds of the tenant task queue for every set of tasks and workers, *)
(* every concurrency and any number of faults.                             *)
(***************************************************************************)
EXTENDS TenantTaskQueue, FiniteSetTheorems, SequenceTheorems, TLAPS

(***************************************************************************)
(* Type correctness is inductive only with the fact that a worker in the   *)
(* loop over next_tasks has a task to deliver.                             *)
(***************************************************************************)
DispatcherHoldsTask ==
  \A w \in Workers : pc[w] \in {"dispatch", "send"} => pulled[w] # <<>>

TypeInv == TypeOK /\ DispatcherHoldsTask

LEMMA InitTypeInv == Init => TypeInv
<1> SUFFICES ASSUME Init PROVE TypeInv
  OBVIOUS
<1>1. <<>> \in Seq(Tasks) /\ 0 \in 0..MaxFaults
  BY QueueAssumption
<1>2. pulled \in [Workers -> Seq(Tasks)]
  BY <1>1 DEF Init
<1>3. TypeOK
  BY <1>1, <1>2 DEF Init, TypeOK, ClientStates, WorkerStates
<1> QED
  BY <1>3 DEF TypeInv, DispatcherHoldsTask, Init

LEMMA NextTypeInv == TypeInv /\ [Next]_vars => TypeInv'
<1> SUFFICES ASSUME TypeInv, [Next]_vars PROVE TypeInv'
  OBVIOUS
<1> USE QueueAssumption DEF TypeInv, TypeOK, DispatcherHoldsTask, ClientStates,
        WorkerStates, redis, celery, history
<1>1. ASSUME NEW t \in Tasks, ClientStep(t) PROVE TypeInv'
  <2>1. CASE SendDirect(t)
    BY <2>1 DEF SendDirect
  <2>2. CASE GetTaskKey(t)
    BY <2>2 DEF GetTaskKey
  <2>3. CASE PushTask(t)
    BY <2>3 DEF PushTask
  <2>4. CASE SetTaskWaitingTime(t)
    BY <2>4 DEF SetTaskWaitingTime
  <2>5. CASE Deliver(t)
    BY <2>5 DEF Deliver
  <2> QED
    BY <1>1, <2>1, <2>2, <2>3, <2>4, <2>5 DEF ClientStep
<1>2. ASSUME NEW t \in Tasks, DeliverFails(t) PROVE TypeInv'
  BY <1>2 DEF DeliverFails
<1>3. ASSUME NEW w \in Workers, WorkerStep(w) PROVE TypeInv'
  <2>1. ASSUME NEW t \in Tasks, Start(w, t) PROVE TypeInv'
    BY <2>1 DEF Start, Goto
  <2>2. CASE Finish(w)
    BY <2>2 DEF Finish, Goto, AfterTask
  <2>3. CASE Pull(w)
    BY <2>3 DEF Pull, AfterPop, PullsLeft
  <2>4. CASE PullDone(w)
    BY <2>4 DEF PullDone, Goto, AfterPull
  <2>5. CASE KeepFlag(w)
    BY <2>5 DEF KeepFlag, Goto
  <2>6. CASE Send(w)
    BY <2>6 DEF Send, Goto
  <2>7. CASE ClearFlag(w)
    BY <2>7 DEF ClearFlag, Goto
  <2> QED
    BY <1>3, <2>1, <2>2, <2>3, <2>4, <2>5, <2>6, <2>7 DEF WorkerStep
<1>4. ASSUME NEW w \in Workers, WorkerFails(w) PROVE TypeInv'
  BY <1>4 DEF WorkerFails, Goto, Held
<1>5. CASE ExpireFlag
  BY <1>5 DEF ExpireFlag
<1>6. CASE UNCHANGED vars
  BY <1>6 DEF vars
<1> QED
  BY <1>1, <1>2, <1>3, <1>4, <1>5, <1>6 DEF Next

(***************************************************************************)
(* Every variable keeps its type: nothing reaches the list, Celery or a    *)
(* worker's hands except the task of some request.                         *)
(***************************************************************************)
THEOREM TypeCorrect == Safety => []TypeOK
<1>1. TypeInv => TypeOK
  BY DEF TypeInv
<1> QED
  BY <1>1, InitTypeInv, NextTypeInv, PTL DEF Safety

THEOREM TypeInvariant == Safety => []TypeInv
  BY InitTypeInv, NextTypeInv, PTL DEF Safety

-----------------------------------------------------------------------------
(***************************************************************************)
(* The list gives back, in order, exactly what was pushed on it.           *)
(***************************************************************************)
THEOREM Fifo == Safety => []QueueIsFifo
<1>1. Init => QueueIsFifo
  BY DEF Init, QueueIsFifo
<1>2. TypeInv /\ QueueIsFifo /\ [Next]_vars => QueueIsFifo'
  <2> SUFFICES ASSUME TypeInv, QueueIsFifo, [Next]_vars PROVE QueueIsFifo'
    OBVIOUS
  <2>0. taken \in Seq(Tasks) /\ queue \in Seq(Tasks)
    BY DEF TypeInv, TypeOK
  <2>1. ASSUME NEW t \in Tasks, PushTask(t) PROVE QueueIsFifo'
    <3>1. Append(taken \o queue, t) = taken \o Append(queue, t)
      BY <2>0
    <3> QED
      BY <2>1, <3>1 DEF PushTask, QueueIsFifo
  <2>2. ASSUME NEW w \in Workers, Pull(w) PROVE QueueIsFifo'
    <3>1. Append(taken, Head(queue)) \o Tail(queue) = taken \o queue
      BY <2>0, <2>2 DEF Pull
    <3> QED
      BY <2>2, <3>1 DEF Pull, AfterPop, QueueIsFifo
  <2>3. CASE UNCHANGED <<pushed, taken, queue>>
    BY <2>3 DEF QueueIsFifo
  <2> QED
    BY <2>1, <2>2, <2>3 DEF Next, ClientStep, WorkerStep, SendDirect, GetTaskKey,
       SetTaskWaitingTime, Deliver, DeliverFails, Start, Finish, PullDone, KeepFlag,
       Send, ClearFlag, WorkerFails, ExpireFlag, vars, redis, history
<1> QED
  BY <1>1, <1>2, TypeInvariant, PTL DEF Safety

-----------------------------------------------------------------------------
(***************************************************************************)
(* Who will pull keeps this role until it has pulled, and hands it on to   *)
(* the tasks it delivers: only a fault, or a worker that found nothing,    *)
(* ends it.                                                                *)
(***************************************************************************)
LEMMA WillPullLasts ==
  ASSUME TypeInv, WillPull, [Next]_vars, faults' = 0,
         ~ \E w \in Workers : PullDone(w) /\ pulled[w] = <<>>
  PROVE  WillPull'
<1> USE DEF TypeInv, TypeOK, WillPull, ClientStates, WorkerStates, redis, celery
<1>1. ASSUME NEW t \in Tasks, ClientStep(t) PROVE WillPull'
  <2>1. CASE SendDirect(t) \/ Deliver(t)
    BY <2>1 DEF SendDirect, Deliver
  <2>2. CASE GetTaskKey(t)
    BY <2>2 DEF GetTaskKey
  <2>3. CASE PushTask(t)
    BY <2>3 DEF PushTask
  <2>4. CASE SetTaskWaitingTime(t)
    BY <2>4 DEF SetTaskWaitingTime
  <2> QED
    BY <1>1, <2>1, <2>2, <2>3, <2>4 DEF ClientStep
<1>2. ASSUME NEW w \in Workers, WorkerStep(w) PROVE WillPull'
  <2>1. ASSUME NEW t \in Tasks, Start(w, t) PROVE WillPull'
    BY <2>1 DEF Start, Goto
  <2>2. CASE Finish(w)
    BY <2>2 DEF Finish, Goto, AfterTask
  <2>3. CASE Pull(w)
    BY <2>3 DEF Pull
  <2>4. CASE PullDone(w)
    BY <2>4 DEF PullDone, Goto, AfterPull
  <2>5. CASE KeepFlag(w)
    BY <2>5 DEF KeepFlag, Goto
  <2>6. CASE Send(w)
    BY <2>6 DEF Send, Goto
  <2>7. CASE ClearFlag(w)
    BY <2>7 DEF ClearFlag, Goto
  <2> QED
    BY <1>2, <2>1, <2>2, <2>3, <2>4, <2>5, <2>6, <2>7 DEF WorkerStep
<1>3. ASSUME NEW t \in Tasks, DeliverFails(t) PROVE FALSE
  BY <1>3, QueueAssumption DEF DeliverFails
<1>4. ASSUME NEW w \in Workers, WorkerFails(w) PROVE FALSE
  BY <1>4, QueueAssumption DEF WorkerFails
<1>5. CASE ExpireFlag \/ UNCHANGED vars
  BY <1>5 DEF ExpireFlag, vars
<1> QED
  BY <1>1, <1>2, <1>3, <1>4, <1>5 DEF Next

(***************************************************************************)
(* No step takes a fault back.                                             *)
(***************************************************************************)
LEMMA FaultsGrow ==
  ASSUME TypeInv, [Next]_vars, faults' = 0
  PROVE  faults = 0
<1>1. faults \in Nat
  BY QueueAssumption DEF TypeInv, TypeOK
<1>2. faults' = faults \/ faults' = faults + 1
  BY DEF Next, ClientStep, WorkerStep, SendDirect, GetTaskKey, PushTask,
     SetTaskWaitingTime, Deliver, DeliverFails, Start, Finish, Pull, PullDone,
     KeepFlag, Send, ClearFlag, WorkerFails, ExpireFlag, vars
<1> QED
  BY <1>1, <1>2

(***************************************************************************)
(* A task waits in vain only if it was pushed after everybody had looked   *)
(* at the list for the last time.                                          *)
(***************************************************************************)
THEOREM WaitingTaskIsSeen == Safety => []WaitingTaskHasPuller
<1>1. Init => WaitingTaskHasPuller
  BY DEF Init, WaitingTaskHasPuller
<1>2. TypeInv /\ WaitingTaskHasPuller /\ [Next]_vars => WaitingTaskHasPuller'
  <2> SUFFICES ASSUME TypeInv, WaitingTaskHasPuller, [Next]_vars, faults' = 0,
                      Concurrency > 0,
                      NEW i \in DOMAIN queue', queue'[i] \notin late'
               PROVE  WillPull'
    BY DEF WaitingTaskHasPuller
  <2>1. faults = 0
    BY FaultsGrow
  <2>2. queue \in Seq(Tasks)
    BY DEF TypeInv, TypeOK
  <2>3. WillPull
    <3>1. ASSUME NEW t \in Tasks, PushTask(t) PROVE WillPull
      <4>1. CASE i \in DOMAIN queue
        BY <2>1, <2>2, <3>1, <4>1 DEF PushTask, WaitingTaskHasPuller
      <4>2. CASE i \notin DOMAIN queue
        <5>1. queue'[i] = t
          BY <2>2, <3>1, <4>2 DEF PushTask
        <5> QED
          BY <3>1, <5>1 DEF PushTask
      <4> QED
        BY <4>1, <4>2
    <3>2. ASSUME NEW w \in Workers, Pull(w) PROVE WillPull
      BY <3>2 DEF Pull, WillPull
    <3>3. CASE UNCHANGED <<queue, late>>
      BY <2>1, <3>3 DEF WaitingTaskHasPuller
    <3> QED
      BY <3>1, <3>2, <3>3 DEF Next, ClientStep, WorkerStep, SendDirect, GetTaskKey,
         SetTaskWaitingTime, Deliver, DeliverFails, Start, Finish, PullDone, KeepFlag,
         Send, ClearFlag, WorkerFails, ExpireFlag, vars, redis, history
  <2>4. ASSUME NEW w \in Workers, PullDone(w), pulled[w] = <<>> PROVE FALSE
    <3>1. queue = <<>>
      BY <2>4, QueueAssumption DEF PullDone, PullsLeft
    <3> QED
      BY <2>4, <3>1 DEF PullDone, redis
  <2> QED
    BY <2>3, <2>4, WillPullLasts
<1> QED
  BY <1>1, <1>2, TypeInvariant, PTL DEF Safety

(***************************************************************************)
(* Without faults a set flag is always somebody's: it does not keep later  *)
(* requests waiting for nobody.                                            *)
(***************************************************************************)
THEOREM FlagIsOwned == Safety => []SetFlagHasOwner
<1>1. Init => SetFlagHasOwner
  BY DEF Init, SetFlagHasOwner
<1>2. TypeInv /\ SetFlagHasOwner /\ [Next]_vars => SetFlagHasOwner'
  <2> DEFINE Clearing == \E w \in Workers : pc[w] = "clear"
  <2> SUFFICES ASSUME TypeInv, SetFlagHasOwner, [Next]_vars, faults' = 0, flag'
               PROVE  WillPull' \/ Clearing'
    BY DEF SetFlagHasOwner
  <2> USE DEF TypeInv, TypeOK, ClientStates, WorkerStates
  <2>1. faults = 0
    BY FaultsGrow
  <2>2. ASSUME NEW w \in Workers, PullDone(w), pulled[w] = <<>> PROVE Clearing'
    BY <2>2 DEF PullDone, Goto, AfterPull
  <2>3. ASSUME NEW t \in Tasks, SetTaskWaitingTime(t) PROVE WillPull'
    BY <2>3 DEF SetTaskWaitingTime, WillPull
  <2>4. ASSUME NEW w \in Workers, KeepFlag(w) PROVE WillPull'
    BY <2>4 DEF KeepFlag, WillPull, Goto
  <2>5. ASSUME NEW w \in Workers, ClearFlag(w) PROVE FALSE
    BY <2>5 DEF ClearFlag
  <2>6. CASE UNCHANGED flag
    <3>1. CASE WillPull
      BY <2>2, <3>1, WillPullLasts
    <3>2. ASSUME NEW w \in Workers, pc[w] = "clear" PROVE WillPull' \/ Clearing'
      <4>1. ASSUME NEW v \in Workers, WorkerFails(v) PROVE FALSE
        BY <4>1, QueueAssumption DEF WorkerFails
      <4>2. pc'[w] = "clear"
        BY <2>5, <3>2, <4>1 DEF Next, ClientStep, WorkerStep, SendDirect, GetTaskKey,
           PushTask, SetTaskWaitingTime, Deliver, DeliverFails, Start, Finish, Pull,
           PullDone, KeepFlag, Send, ClearFlag, ExpireFlag, vars, celery, Goto
      <4> QED
        BY <4>2
    <3> QED
      BY <2>1, <2>6, <3>1, <3>2 DEF SetFlagHasOwner
  <2> QED
    BY <2>3, <2>4, <2>5, <2>6 DEF Next, ClientStep, WorkerStep, SendDirect, GetTaskKey,
       PushTask, Deliver, DeliverFails, Start, Finish, Pull, PullDone, Send, WorkerFails,
       ExpireFlag, vars, redis
<1> QED
  BY <1>1, <1>2, TypeInvariant, PTL DEF Safety

-----------------------------------------------------------------------------
(***************************************************************************)
(* The chains of tasks, one after the other, that a tenant occupies Celery *)
(* with.  With a concurrency of one a worker that ends a task pulls at     *)
(* most one other, so it leaves the number of tasks in Celery as it was or *)
(* lowers it; only a request that delivers its own task raises it.         *)
(***************************************************************************)
Chains ==
  /\ IsFiniteSet(broker) /\ IsFiniteSet(Busy) /\ IsFiniteSet(Heads)
  /\ \A w \in Workers : Len(pulled[w]) <= 1
  /\ Cardinality(broker) + Cardinality(Busy) <= Cardinality(Heads)

ChainInv == Concurrency = 1 => Chains

(***************************************************************************)
(* How the three sets change when one element comes or goes.               *)
(***************************************************************************)
LEMMA CardinalityOfUnion ==
  ASSUME NEW S, IsFiniteSet(S), NEW x
  PROVE  /\ IsFiniteSet(S \union {x})
         /\ Cardinality(S) \in Nat /\ Cardinality(S \union {x}) \in Nat
         /\ Cardinality(S \union {x}) <= Cardinality(S) + 1
         /\ x \notin S => Cardinality(S \union {x}) = Cardinality(S) + 1
<1>1. Cardinality(S) \in Nat
  BY FS_CardinalityType
<1> QED
  BY <1>1, FS_AddElement

LEMMA CardinalityOfDifference ==
  ASSUME NEW S, IsFiniteSet(S), NEW x \in S
  PROVE  /\ IsFiniteSet(S \ {x})
         /\ Cardinality(S) \in Nat /\ Cardinality(S \ {x}) \in Nat
         /\ Cardinality(S \ {x}) = Cardinality(S) - 1
<1>1. Cardinality(S) \in Nat /\ IsFiniteSet(S \ {x})
  BY FS_CardinalityType, FS_RemoveElement
<1>2. Cardinality(S \ {x}) \in Nat
  BY <1>1, FS_CardinalityType
<1> QED
  BY <1>1, <1>2, FS_RemoveElement

LEMMA NextChains ==
  ASSUME TypeInv, Concurrency = 1, Chains, [Next]_vars
  PROVE  Chains'
<1> USE DEF TypeInv, TypeOK, ClientStates, WorkerStates, redis, celery, history
<1> DEFINE B == Cardinality(broker)
           W == Cardinality(Busy)
           H == Cardinality(Heads)
<1>0. B \in Nat /\ W \in Nat /\ H \in Nat /\ B + W <= H
  BY FS_CardinalityType DEF Chains
<1>1. ASSUME UNCHANGED <<broker, Busy, Heads>>,
             \A w \in Workers : Len(pulled'[w]) <= 1
      PROVE  Chains'
  BY <1>1 DEF Chains
<1>2. ASSUME NEW t \in Tasks, SendDirect(t) \/ Deliver(t) PROVE Chains'
  <2>0. /\ client[t] # "sent" /\ client' = [client EXCEPT ![t] = "sent"]
        /\ broker' = broker \union {t} /\ UNCHANGED <<pc, pulled>>
    BY <1>2 DEF SendDirect, Deliver
  <2>1. broker' = broker \union {t} /\ Busy' = Busy /\ pulled' = pulled
    BY <2>0 DEF Busy
  <2>2. Heads' = Heads \union {t} /\ t \notin Heads
    BY <2>0 DEF Heads
  <2>3. /\ IsFiniteSet(broker') /\ Cardinality(broker') \in Nat
        /\ Cardinality(broker') <= B + 1
    BY <2>1, CardinalityOfUnion DEF Chains
  <2>4. IsFiniteSet(Heads') /\ Cardinality(Heads') = H + 1
    BY <2>2, CardinalityOfUnion DEF Chains
  <2>5. Cardinality(broker') + W <= Cardinality(Heads')
    BY <1>0, <2>3, <2>4
  <2> QED
    BY <2>1, <2>3, <2>4, <2>5 DEF Chains
<1>3. ASSUME NEW t \in Tasks,
             \/ GetTaskKey(t) \/ PushTask(t) \/ SetTaskWaitingTime(t) \/ DeliverFails(t)
      PROVE  Chains'
  <2>1. UNCHANGED <<broker, pc, pulled>>
    BY <1>3 DEF GetTaskKey, PushTask, SetTaskWaitingTime, DeliverFails
  <2>2. UNCHANGED Heads
    BY <1>3 DEF GetTaskKey, PushTask, SetTaskWaitingTime, DeliverFails, Heads
  <2> QED
    BY <1>1, <2>1, <2>2 DEF Busy, Chains
<1>4. ASSUME NEW w \in Workers, NEW t \in Tasks, Start(w, t) PROVE Chains'
  <2>1. Busy' = Busy \union {w} /\ w \notin Busy /\ Heads' = Heads /\ pulled' = pulled
    BY <1>4 DEF Start, Goto, Busy, Heads
  <2>2. broker' = broker \ {t} /\ t \in broker
    BY <1>4 DEF Start
  <2>3. IsFiniteSet(Busy') /\ Cardinality(Busy') = W + 1
    BY <2>1, CardinalityOfUnion DEF Chains
  <2>4. IsFiniteSet(broker') /\ Cardinality(broker') = B - 1
    BY <2>2, CardinalityOfDifference DEF Chains
  <2>5. Cardinality(broker') + Cardinality(Busy') <= H
    BY <1>0, <2>3, <2>4
  <2> QED
    BY <2>1, <2>3, <2>4, <2>5 DEF Chains
<1>5. ASSUME NEW w \in Workers, Finish(w) \/ PullDone(w) \/ KeepFlag(w) PROVE Chains'
  <2>1. UNCHANGED <<broker, client, pulled>>
    BY <1>5 DEF Finish, PullDone, KeepFlag
  <2>2. UNCHANGED Busy
    BY <1>5 DEF Finish, PullDone, KeepFlag, Goto, AfterTask, AfterPull, Busy
  <2> QED
    BY <1>1, <2>1, <2>2 DEF Heads, Chains
<1>6. ASSUME NEW w \in Workers, Pull(w) PROVE Chains'
  <2>1. UNCHANGED <<broker, client, pc>>
    BY <1>6 DEF Pull
  <2>2. /\ pulled' = [pulled EXCEPT ![w] = Append(@, Head(queue))]
        /\ Len(pulled[w]) < 1 /\ Head(queue) \in Tasks
    BY <1>6 DEF Pull, PullsLeft
  <2>3. Len(pulled'[w]) <= 1
    BY <2>2
  <2>4. \A v \in Workers : Len(pulled'[v]) <= 1
    BY <2>2, <2>3 DEF Chains
  <2> QED
    BY <1>1, <2>1, <2>4 DEF Heads, Busy
<1>7. ASSUME NEW w \in Workers, Send(w) PROVE Chains'
  <2>1. pulled[w] \in Seq(Tasks) /\ pulled[w] # <<>> /\ Len(pulled[w]) <= 1
    BY <1>7 DEF Send, DispatcherHoldsTask, Chains
  <2>2. Tail(pulled[w]) = <<>>
    BY <2>1
  <2>3. Busy' = Busy \ {w} /\ w \in Busy /\ Heads' = Heads
    BY <1>7, <2>2 DEF Send, Goto, Busy, Heads
  <2>4. broker' = broker \union {Head(pulled[w])}
    BY <1>7 DEF Send
  <2>5. IsFiniteSet(Busy') /\ Cardinality(Busy') = W - 1
    BY <2>3, CardinalityOfDifference DEF Chains
  <2>6. /\ IsFiniteSet(broker') /\ Cardinality(broker') \in Nat
        /\ Cardinality(broker') <= B + 1
    BY <2>4, CardinalityOfUnion DEF Chains
  <2>7. Cardinality(broker') + Cardinality(Busy') <= H
    BY <1>0, <2>5, <2>6
  <2>8. \A v \in Workers : Len(pulled'[v]) <= 1
    BY <1>7, <2>2 DEF Send, Chains
  <2> QED
    BY <2>3, <2>5, <2>6, <2>7, <2>8 DEF Chains
<1>8. ASSUME NEW w \in Workers, ClearFlag(w) \/ WorkerFails(w) PROVE Chains'
  <2>1. Busy' = Busy \ {w} /\ w \in Busy /\ Heads' = Heads /\ broker' = broker
    BY <1>8 DEF ClearFlag, WorkerFails, Goto, Busy, Heads
  <2>2. IsFiniteSet(Busy') /\ Cardinality(Busy') = W - 1
    BY <2>1, CardinalityOfDifference DEF Chains
  <2>3. B + Cardinality(Busy') <= H
    BY <1>0, <2>2
  <2>4. \A v \in Workers : pulled'[v] = pulled[v] \/ pulled'[v] = <<>>
    BY <1>8 DEF ClearFlag, WorkerFails
  <2>5. \A v \in Workers : Len(pulled'[v]) <= 1
    <3>1. Len(<<>>) = 0
      OBVIOUS
    <3> QED
      BY <2>4, <3>1 DEF Chains
  <2> QED
    BY <2>1, <2>2, <2>3, <2>5 DEF Chains
<1>9. CASE ExpireFlag \/ UNCHANGED vars
  BY <1>1, <1>9 DEF ExpireFlag, vars, Busy, Heads, Chains
<1> QED
  BY <1>2, <1>3, <1>4, <1>5, <1>6, <1>7, <1>8, <1>9 DEF Next, ClientStep, WorkerStep

(***************************************************************************)
(* With the default concurrency of one, the tasks of the tenant in Celery  *)
(* are never more than the requests that delivered their own, however many *)
(* wait on the list, and whatever fails.                                   *)
(***************************************************************************)
THEOREM ChainsStayBounded == Safety => []ChainsBounded
<1>1. Init => ChainInv
  <2> SUFFICES ASSUME Init PROVE Chains
    BY DEF ChainInv
  <2>1. broker = {} /\ Busy = {} /\ Heads = {}
    BY DEF Init, Busy, Heads
  <2>2. \A w \in Workers : Len(pulled[w]) <= 1
    BY DEF Init
  <2> QED
    BY <2>1, <2>2, FS_EmptySet DEF Chains
<1>2. TypeInv /\ ChainInv /\ [Next]_vars => ChainInv'
  BY NextChains DEF ChainInv
<1>3. ChainInv => ChainsBounded
  BY DEF ChainInv, Chains, ChainsBounded
<1> QED
  BY <1>1, <1>2, <1>3, TypeInvariant, PTL DEF Safety

-----------------------------------------------------------------------------
(***************************************************************************)
(* Where a task is.  A request sends its task once, so the task is at one  *)
(* place at a time: on the list, in the hands of one worker, at the        *)
(* broker, running on one worker, ended or lost.                           *)
(***************************************************************************)
In(t, s) == \E i \in DOMAIN s : s[i] = t
Distinct(s) == \A i, j \in DOMAIN s : s[i] = s[j] => i = j

Runs(w, t) == pc[w] = "running" /\ job[w] = t
With(w, t) == In(t, pulled[w]) \/ Runs(w, t)
Gone(t) == t \in ended \/ t \in lost

Unseen(t) ==
  /\ ~In(t, queue) /\ t \notin broker /\ ~Gone(t)
  /\ \A w \in Workers : ~With(w, t)

OnePlace(t) ==
  /\ client[t] \notin {"queued", "sent"} => Unseen(t)
  /\ In(t, queue) => t \notin broker /\ ~Gone(t)
  /\ t \in broker => ~Gone(t)
  /\ ~(t \in ended /\ t \in lost)
  /\ \A w \in Workers : With(w, t) => ~In(t, queue) /\ t \notin broker /\ ~Gone(t)
  /\ \A w \in Workers : ~(In(t, pulled[w]) /\ Runs(w, t))
  /\ \A v, w \in Workers : With(v, t) /\ With(w, t) => v = w

Places ==
  /\ Distinct(queue)
  /\ \A w \in Workers : Distinct(pulled[w])
  /\ \A w \in Workers : pc[w] = "running" => job[w] \in Tasks
  /\ \A t \in Tasks : OnePlace(t)

LEMMA InAppend ==
  ASSUME NEW s \in Seq(Tasks), NEW e \in Tasks
  PROVE  /\ \A t \in Tasks : In(t, Append(s, e)) <=> In(t, s) \/ t = e
         /\ Distinct(s) /\ ~In(e, s) => Distinct(Append(s, e))
<1>1. /\ DOMAIN s = 1..Len(s) /\ DOMAIN Append(s, e) = 1..Len(s) + 1 /\ Len(s) \in Nat
      /\ \A i \in 1..Len(s) : Append(s, e)[i] = s[i]
      /\ Append(s, e)[Len(s) + 1] = e
  BY LenProperties, AppendProperties
<1> DEFINE a == Append(s, e)
           n == Len(s)
<1>2. \A i \in DOMAIN a : (i \in DOMAIN s /\ a[i] = s[i]) \/ (i = n + 1 /\ a[i] = e)
  BY <1>1
<1>3. DOMAIN s \subseteq DOMAIN a /\ n + 1 \in DOMAIN a /\ n + 1 \notin DOMAIN s
  BY <1>1
<1>4. \A i \in DOMAIN s : a[i] = s[i]
  BY <1>1
<1>5. a[n + 1] = e
  BY <1>1
<1> HIDE DEF a, n
<1>6. \A t \in Tasks : In(t, a) <=> In(t, s) \/ t = e
  BY <1>2, <1>3, <1>4, <1>5 DEF In
<1>7. Distinct(s) /\ ~In(e, s) => Distinct(a)
  BY <1>2, <1>3, <1>4, <1>5 DEF In, Distinct
<1> QED
  BY <1>6, <1>7 DEF a

LEMMA InTail ==
  ASSUME NEW s \in Seq(Tasks), s # <<>>, Distinct(s)
  PROVE  /\ Head(s) \in Tasks /\ In(Head(s), s) /\ Tail(s) \in Seq(Tasks)
         /\ \A t \in Tasks : In(t, Tail(s)) <=> In(t, s) /\ t # Head(s)
         /\ Distinct(Tail(s))
<1>1. /\ DOMAIN s = 1..Len(s) /\ DOMAIN Tail(s) = 1..Len(s) - 1 /\ Len(s) \in Nat \ {0}
      /\ \A i \in 1..Len(s) - 1 : Tail(s)[i] = s[i + 1]
      /\ Head(s) = s[1] /\ Head(s) \in Tasks /\ Tail(s) \in Seq(Tasks)
  BY LenProperties, HeadTailProperties, EmptySeq
<1> DEFINE r == Tail(s)
           n == Len(s)
<1>2. \A i \in DOMAIN r : i \in Nat /\ i + 1 \in DOMAIN s /\ i + 1 # 1 /\ r[i] = s[i + 1]
  BY <1>1
<1>3. \A i \in DOMAIN s : i = 1 \/ (i - 1 \in DOMAIN r /\ r[i - 1] = s[i])
  BY <1>1
<1>4. 1 \in DOMAIN s /\ s[1] = Head(s)
  BY <1>1
<1> HIDE DEF r, n
<1>5. ASSUME NEW t \in Tasks PROVE In(t, r) <=> In(t, s) /\ t # Head(s)
  BY <1>2, <1>3, <1>4 DEF In, Distinct
<1>6. Distinct(r)
  BY <1>2 DEF Distinct
<1>7. In(Head(s), s)
  BY <1>4 DEF In
<1> QED
  BY <1>1, <1>5, <1>6, <1>7 DEF r

LEMMA InEmpty == \A t : ~In(t, <<>>)
  BY DEF In

(***************************************************************************)
(* A step that leaves every task where it is.                              *)
(***************************************************************************)
LEMMA PlacesKept ==
  ASSUME Places, UNCHANGED <<queue, broker, pulled, ended, lost>>,
         \A w \in Workers, t \in Tasks : Runs(w, t)' = Runs(w, t),
         \A w \in Workers : pc'[w] = "running" => pc[w] = "running" /\ job'[w] = job[w],
         \A t \in Tasks : client'[t] \notin {"queued", "sent"} => client[t] \notin {"queued", "sent"}
  PROVE  Places'
<1>1. \A w \in Workers, t \in Tasks : With(w, t)' = With(w, t)
  BY DEF With
<1>2. \A t \in Tasks : Gone(t)' = Gone(t)
  BY DEF Gone
<1>3. ASSUME NEW t \in Tasks PROVE OnePlace(t)'
  BY <1>1, <1>2 DEF Places, OnePlace, Unseen
<1> QED
  BY <1>3 DEF Places

LEMMA NextPlaces == TypeInv /\ Places /\ [Next]_vars => Places'
<1> SUFFICES ASSUME TypeInv, Places, [Next]_vars PROVE Places'
  OBVIOUS
<1> USE DEF TypeInv, TypeOK, ClientStates, WorkerStates
<1>1. ASSUME NEW t \in Tasks, GetTaskKey(t) \/ SetTaskWaitingTime(t) \/ DeliverFails(t)
      PROVE  Places'
  BY <1>1, PlacesKept DEF GetTaskKey, SetTaskWaitingTime, DeliverFails, redis, celery, history, Runs
<1>2. ASSUME NEW w \in Workers, PullDone(w) \/ KeepFlag(w) \/ ClearFlag(w)
      PROVE  Places'
  BY <1>2, PlacesKept DEF PullDone, KeepFlag, ClearFlag, Goto, AfterPull, redis, celery, history, Runs
<1>3. CASE ExpireFlag \/ UNCHANGED vars
  BY <1>3, PlacesKept DEF ExpireFlag, vars, redis, celery, history, Runs
<1>4. ASSUME NEW x \in Tasks, SendDirect(x) \/ Deliver(x) PROVE Places'
  <2>1. /\ Unseen(x) /\ broker' = broker \union {x}
        /\ UNCHANGED <<queue, pc, job, pulled, ended, lost>>
        /\ client' = [client EXCEPT ![x] = "sent"]
    BY <1>4 DEF SendDirect, Deliver, redis, celery, history, Places, OnePlace
  <2>2. \A w \in Workers, t \in Tasks : With(w, t)' = With(w, t)
    BY <2>1 DEF With, Runs
  <2>3. ASSUME NEW t \in Tasks PROVE OnePlace(t)'
    BY <2>1, <2>2 DEF Places, OnePlace, Unseen, Gone, Runs
  <2> QED
    BY <2>1, <2>3 DEF Places
<1>5. ASSUME NEW x \in Tasks, PushTask(x) PROVE Places'
  <2>1. /\ Unseen(x) /\ queue' = Append(queue, x)
        /\ UNCHANGED <<broker, pc, job, pulled, ended, lost>>
        /\ client' = [client EXCEPT ![x] = "queued"]
    BY <1>5 DEF PushTask, celery, Places, OnePlace
  <2>2. \A w \in Workers, t \in Tasks : With(w, t)' = With(w, t)
    BY <2>1 DEF With, Runs
  <2>3. \A t \in Tasks : In(t, queue') <=> In(t, queue) \/ t = x
    BY <2>1, InAppend
  <2>4. Distinct(queue')
    BY <2>1, InAppend DEF Places, Unseen
  <2>5. ASSUME NEW t \in Tasks PROVE OnePlace(t)'
    BY <2>1, <2>2, <2>3 DEF Places, OnePlace, Unseen, Gone, Runs
  <2> QED
    BY <2>1, <2>4, <2>5 DEF Places
<1>6. ASSUME NEW w \in Workers, NEW x \in Tasks, Start(w, x) PROVE Places'
  <2>1. /\ x \in broker /\ broker' = broker \ {x} /\ pc[w] = "idle"
        /\ pc' = [pc EXCEPT ![w] = "running"] /\ job' = [job EXCEPT ![w] = x]
        /\ UNCHANGED <<queue, pulled, client, ended, lost>>
    BY <1>6 DEF Start, Goto, redis, history
  <2>2. \A v \in Workers, t \in Tasks : Runs(v, t)' <=> Runs(v, t) \/ (v = w /\ t = x)
    BY <2>1 DEF Runs
  <2>3. ASSUME NEW t \in Tasks PROVE OnePlace(t)'
    BY <2>1, <2>2 DEF Places, OnePlace, Unseen, Gone, With
  <2> QED
    BY <2>1, <2>3 DEF Places
<1>7. ASSUME NEW w \in Workers, Finish(w) PROVE Places'
  <2>1. /\ Runs(w, job[w]) /\ job[w] \in Tasks
        /\ ended' = ended \union {job[w]} /\ pc' = [pc EXCEPT ![w] = "pulling"]
        /\ UNCHANGED <<queue, broker, pulled, job, client, lost>>
    BY <1>7 DEF Finish, Goto, AfterTask, redis, Runs, Places
  <2>2. \A v \in Workers, t \in Tasks : Runs(v, t)' <=> Runs(v, t) /\ v # w
    BY <2>1 DEF Runs
  <2>3. \A v \in Workers : Runs(v, job[w]) => v = w
    BY <2>1 DEF Places, OnePlace, With
  <2>4. \A t \in Tasks : Runs(w, t) => t = job[w]
    BY DEF Runs
  <2>5. ASSUME NEW t \in Tasks PROVE OnePlace(t)'
    BY <2>1, <2>2, <2>3, <2>4 DEF Places, OnePlace, Unseen, Gone, With
  <2> QED
    BY <2>1, <2>5 DEF Places
<1>8. ASSUME NEW w \in Workers, Pull(w) PROVE Places'
  <2> DEFINE h == Head(queue)
  <2>1. /\ queue # <<>> /\ queue' = Tail(queue)
        /\ pulled' = [pulled EXCEPT ![w] = Append(pulled[w], h)]
        /\ UNCHANGED <<broker, client, pc, job, ended, lost>>
    BY <1>8 DEF Pull, AfterPop
  <2>2. h \in Tasks /\ In(h, queue) /\ Distinct(queue')
    BY <2>1, InTail DEF Places
  <2>3. \A t \in Tasks : In(t, queue') <=> In(t, queue) /\ t # h
    BY <2>1, InTail DEF Places
  <2>4. ~In(h, pulled[w])
    BY <2>2 DEF Places, OnePlace, With
  <2>5. /\ \A t \in Tasks : In(t, pulled'[w]) <=> In(t, pulled[w]) \/ t = h
        /\ Distinct(pulled'[w])
    BY <2>1, <2>2, <2>4, InAppend DEF Places
  <2>6. \A v \in Workers \ {w} : pulled'[v] = pulled[v]
    BY <2>1
  <2> HIDE DEF h
  <2>7. \A v \in Workers, t \in Tasks : With(v, t)' <=> With(v, t) \/ (v = w /\ t = h)
    BY <2>1, <2>5, <2>6 DEF With, Runs
  <2>8. \A v \in Workers, t \in Tasks : ~(In(t, pulled'[v]) /\ Runs(v, t)')
    BY <2>1, <2>2, <2>5, <2>6 DEF Places, OnePlace, With, Runs
  <2>9. ASSUME NEW t \in Tasks PROVE OnePlace(t)'
    BY <2>1, <2>2, <2>3, <2>7, <2>8 DEF Places, OnePlace, Unseen, Gone
  <2> QED
    BY <2>1, <2>2, <2>5, <2>6, <2>9 DEF Places
<1>9. ASSUME NEW w \in Workers, Send(w) PROVE Places'
  <2> DEFINE h == Head(pulled[w])
  <2>1. /\ pulled[w] # <<>> /\ pulled' = [pulled EXCEPT ![w] = Tail(pulled[w])]
        /\ broker' = broker \union {h} /\ pc[w] = "send" /\ pc'[w] # "running"
        /\ \A v \in Workers \ {w} : pc'[v] = pc[v]
        /\ UNCHANGED <<queue, client, job, ended, lost>>
    BY <1>9 DEF Send, Goto, redis, history, DispatcherHoldsTask
  <2>2. h \in Tasks /\ In(h, pulled[w]) /\ Distinct(pulled'[w])
    BY <2>1, InTail DEF Places
  <2>3. \A t \in Tasks : In(t, pulled'[w]) <=> In(t, pulled[w]) /\ t # h
    BY <2>1, InTail DEF Places
  <2>4. \A v \in Workers \ {w} : pulled'[v] = pulled[v]
    BY <2>1
  <2> HIDE DEF h
  <2>5. \A v \in Workers, t \in Tasks : Runs(v, t)' <=> Runs(v, t)
    BY <2>1 DEF Runs
  <2>6. \A v \in Workers : ~Runs(v, h)
    BY <2>2 DEF Places, OnePlace, With
  <2>7. \A v \in Workers, t \in Tasks : With(v, t)' <=> With(v, t) /\ ~(v = w /\ t = h)
    BY <2>3, <2>4, <2>5, <2>6 DEF With
  <2>8. \A v \in Workers, t \in Tasks : ~(In(t, pulled'[v]) /\ Runs(v, t)')
    BY <2>3, <2>4, <2>5 DEF Places, OnePlace
  <2>9. ASSUME NEW t \in Tasks PROVE OnePlace(t)'
    BY <2>1, <2>2, <2>7, <2>8 DEF Places, OnePlace, Unseen, Gone, With
  <2> QED
    BY <2>1, <2>2, <2>4, <2>9 DEF Places
<1>10. ASSUME NEW w \in Workers, WorkerFails(w) PROVE Places'
  <2>1. /\ lost' = lost \union Held(w) /\ pulled' = [pulled EXCEPT ![w] = <<>>]
        /\ pc' = [pc EXCEPT ![w] = "idle"]
        /\ UNCHANGED <<queue, broker, client, job, ended>>
    BY <1>10 DEF WorkerFails, Goto, redis
  <2>2. \A t \in Tasks : t \in Held(w) <=> With(w, t)
    BY DEF Held, With, Runs, In
  <2>3. \A t \in Tasks : ~In(t, pulled'[w]) /\ ~Runs(w, t)'
    BY <2>1, InEmpty DEF Runs
  <2>4. \A v \in Workers \ {w} : pulled'[v] = pulled[v] /\ \A t \in Tasks : Runs(v, t)' = Runs(v, t)
    BY <2>1 DEF Runs
  <2>5. \A v \in Workers, t \in Tasks : With(v, t)' <=> With(v, t) /\ v # w
    BY <2>3, <2>4 DEF With
  <2>6. \A v \in Workers, t \in Tasks : ~(In(t, pulled'[v]) /\ Runs(v, t)')
    BY <2>3, <2>4 DEF Places, OnePlace
  <2>7. \A t \in Tasks : Gone(t)' <=> Gone(t) \/ With(w, t)
    BY <2>1, <2>2 DEF Gone
  <2>8. ASSUME NEW t \in Tasks PROVE OnePlace(t)'
    BY <2>1, <2>2, <2>5, <2>6, <2>7 DEF Places, OnePlace, Unseen, Gone
  <2>9. \A v \in Workers : Distinct(pulled'[v])
    BY <2>1, <2>4 DEF Places, Distinct
  <2> QED
    BY <2>1, <2>8, <2>9 DEF Places
<1> QED
  BY <1>1, <1>2, <1>3, <1>4, <1>5, <1>6, <1>7, <1>8, <1>9, <1>10 DEF Next, ClientStep, WorkerStep

LEMMA InitPlaces == Init => Places
<1> SUFFICES ASSUME Init PROVE Places
  OBVIOUS
<1>1. /\ queue = <<>> /\ broker = {} /\ ended = {} /\ lost = {}
      /\ \A w \in Workers : pulled[w] = <<>> /\ pc[w] = "idle"
  BY DEF Init
<1>2. Distinct(<<>>)
  BY DEF Distinct
<1>3. ASSUME NEW t \in Tasks PROVE OnePlace(t)
  BY <1>1, InEmpty DEF OnePlace, Unseen, Gone, With, Runs
<1> QED
  BY <1>1, <1>2, <1>3 DEF Places

THEOREM PlacesHold == Safety => []Places
  BY InitPlaces, NextPlaces, TypeInvariant, PTL DEF Safety

-----------------------------------------------------------------------------
(***************************************************************************)
(* Refinement.  The status of a task follows from its place.               *)
(***************************************************************************)
Waits(t) == In(t, queue) \/ t \in broker \/ \E w \in Workers : In(t, pulled[w])

StatusMatches(t) ==
  /\ Unseen(t) => Status(t) = "new"
  /\ Waits(t) => Status(t) = "accepted"
  /\ \A w \in Workers : Runs(w, t) => Status(t) = "running"
  /\ t \in ended => Status(t) = "ended"
  /\ t \in lost => Status(t) = "lost"

LEMMA StatusOfPlace == Places => \A t \in Tasks : StatusMatches(t)
<1> SUFFICES ASSUME Places, NEW t \in Tasks PROVE StatusMatches(t)
  OBVIOUS
<1>1. OnePlace(t)
  BY DEF Places
<1>2. Waiting(t) <=> Waits(t)
  BY DEF Waiting, Waits, In
<1>3. Running(t) <=> \E w \in Workers : Runs(w, t)
  BY DEF Running, Runs
<1>4. Waits(t) => ~Running(t)
  BY <1>1, <1>3 DEF Waits, OnePlace, With
<1>5. Gone(t) => ~Running(t) /\ ~Waiting(t)
  BY <1>1, <1>2, <1>3 DEF Waits, OnePlace, With
<1>6. Unseen(t) => ~Running(t) /\ ~Waiting(t) /\ t \notin ended /\ t \notin lost
  BY <1>2, <1>3 DEF Waits, Unseen, With, Gone
<1>7. ~(t \in ended /\ t \in lost)
  BY <1>1 DEF OnePlace
<1> QED
  BY <1>2, <1>3, <1>4, <1>5, <1>6, <1>7 DEF StatusMatches, Status, Gone

LEMMA StatusOfNextPlace == Places' => (\A t \in Tasks : StatusMatches(t))'
  BY StatusOfPlace, PTL

(***************************************************************************)
(* A task that stays where it is, or moves from one waiting place to       *)
(* another, keeps its status.                                              *)
(***************************************************************************)
LEMMA StatusKept ==
  ASSUME NEW t \in Tasks, Waits(t)' <=> Waits(t),
         \A w \in Workers : Runs(w, t)' <=> Runs(w, t),
         t \in ended' <=> t \in ended, t \in lost' <=> t \in lost
  PROVE  Status(t)' = Status(t)
<1>1. (Waiting(t) <=> Waits(t)) /\ (Waiting(t)' <=> Waits(t)')
  BY DEF Waiting, Waits, In
<1>2. /\ Running(t) <=> \E w \in Workers : Runs(w, t)
      /\ Running(t)' <=> \E w \in Workers : Runs(w, t)'
  BY DEF Running, Runs
<1>3. Running(t)' <=> Running(t)
  BY <1>2
<1>4. Waiting(t)' <=> Waiting(t)
  BY <1>1
<1> QED
  BY <1>3, <1>4 DEF Status

StatusOfAll == [t \in Tasks |-> Status(t)]

LEMMA OneBecomes ==
  ASSUME NEW x \in Tasks, NEW new, Status(x)' = new, UNCHANGED faults,
         \A t \in Tasks \ {x} : Status(t)' = Status(t)
  PROVE  Delivery!Become(x, new)
<1>1. StatusOfAll' = [t \in Tasks |-> Status(t)']
  BY DEF StatusOfAll
<1>2. StatusOfAll' = [StatusOfAll EXCEPT ![x] = new]
  BY <1>1 DEF StatusOfAll
<1>3. (faults > 0)' = (faults > 0)
  OBVIOUS
<1> QED
  BY <1>2, <1>3 DEF Delivery!Become, StatusOfAll

LEMMA NothingBecomes ==
  ASSUME \A t \in Tasks : Status(t)' = Status(t), UNCHANGED faults
  PROVE  UNCHANGED <<[t \in Tasks |-> Status(t)], faults > 0>>
<1>1. (faults > 0)' = (faults > 0)
  OBVIOUS
<1>2. [t \in Tasks |-> Status(t)]' = [t \in Tasks |-> Status(t)']
  OBVIOUS
<1> QED
  BY <1>1, <1>2

LEMMA SomeAreLost ==
  ASSUME NEW S \in SUBSET Tasks, faults' > 0,
         \A t \in S : Status(t) \in {"accepted", "running"} /\ Status(t)' = "lost",
         \A t \in Tasks \ S : Status(t)' = Status(t)
  PROVE  Delivery!Lose(S)
<1>1. (faults > 0)' = TRUE
  OBVIOUS
<1>2. StatusOfAll' = [t \in Tasks |-> Status(t)']
  BY DEF StatusOfAll
<1>3. StatusOfAll' = [t \in Tasks |-> IF t \in S THEN "lost" ELSE StatusOfAll[t]]
  BY <1>2 DEF StatusOfAll
<1> QED
  BY <1>1, <1>3 DEF Delivery!Lose, StatusOfAll

(***************************************************************************)
(* Every step of the queue moves at most one task on, or loses what one    *)
(* worker holds, or changes no status.                                     *)
(***************************************************************************)
LEMMA NextDelivers ==
  ASSUME TypeInv, Places, Places', [Next]_vars
  PROVE  [Delivery!Next]_<<[t \in Tasks |-> Status(t)], faults > 0>>
<1> USE DEF TypeInv, TypeOK, ClientStates, WorkerStates
<1> DEFINE Step == [Delivery!Next]_<<[t \in Tasks |-> Status(t)], faults > 0>>
<1>0. ASSUME UNCHANGED faults,
             \A t \in Tasks : Waits(t)' <=> Waits(t),
             \A t \in Tasks, w \in Workers : Runs(w, t)' <=> Runs(w, t),
             UNCHANGED <<ended, lost>>
      PROVE  Step
  BY <1>0, StatusKept, NothingBecomes
<1>1. ASSUME NEW x \in Tasks, GetTaskKey(x) \/ SetTaskWaitingTime(x)
      PROVE  Step
  BY <1>0, <1>1 DEF GetTaskKey, SetTaskWaitingTime, redis, celery, history, Runs, Waits
<1>2. ASSUME NEW w \in Workers, PullDone(w) \/ KeepFlag(w) \/ ClearFlag(w)
      PROVE  Step
  <2>1. UNCHANGED <<queue, broker, pulled, job, faults, ended, lost>>
    BY <1>2 DEF PullDone, KeepFlag, ClearFlag, redis, history
  <2>2. \A t \in Tasks, v \in Workers : Runs(v, t)' <=> Runs(v, t)
    BY <1>2, <2>1 DEF PullDone, KeepFlag, ClearFlag, Goto, AfterPull, Runs
  <2> QED
    BY <1>0, <2>1, <2>2 DEF Waits
<1>3. CASE ExpireFlag \/ UNCHANGED vars
  BY <1>0, <1>3 DEF ExpireFlag, vars, redis, celery, history, Runs, Waits
<1>4. ASSUME NEW x \in Tasks, SendDirect(x) \/ Deliver(x) \/ PushTask(x)
      PROVE  Step
  <2>1. /\ Unseen(x)
        /\ UNCHANGED <<pc, job, pulled, faults, ended, lost>>
        /\ \/ broker' = broker \union {x} /\ queue' = queue
           \/ broker' = broker /\ queue' = Append(queue, x)
    BY <1>4 DEF SendDirect, Deliver, PushTask, redis, celery, history, Places, OnePlace
  <2>2. \A t \in Tasks : Waits(t)' <=> Waits(t) \/ t = x
    <3>1. \A t \in Tasks : In(t, Append(queue, x)) <=> In(t, queue) \/ t = x
      BY InAppend
    <3>2. CASE broker' = broker \union {x} /\ queue' = queue
      BY <2>1, <3>2 DEF Waits
    <3>3. CASE broker' = broker /\ queue' = Append(queue, x)
      BY <2>1, <3>1, <3>3 DEF Waits
    <3> QED
      BY <2>1, <3>2, <3>3
  <2>3. \A t \in Tasks, w \in Workers : Runs(w, t)' <=> Runs(w, t)
    BY <2>1 DEF Runs
  <2>4. \A t \in Tasks \ {x} : Status(t)' = Status(t)
    BY <2>1, <2>2, <2>3, StatusKept
  <2>5. Status(x) = "new"
    BY <2>1, StatusOfPlace DEF StatusMatches
  <2>6. Status(x)' = "accepted"
    BY <2>2, StatusOfNextPlace DEF StatusMatches
  <2>7. Delivery!Become(x, "accepted")
    BY <2>1, <2>4, <2>6, OneBecomes
  <2> QED
    BY <2>5, <2>7 DEF Delivery!Next, Delivery!Accept
<1>5. ASSUME NEW w \in Workers, NEW x \in Tasks, Start(w, x) PROVE Step
  <2>1. /\ x \in broker /\ broker' = broker \ {x} /\ pc[w] = "idle"
        /\ pc' = [pc EXCEPT ![w] = "running"] /\ job' = [job EXCEPT ![w] = x]
        /\ UNCHANGED <<queue, pulled, faults, ended, lost>>
    BY <1>5 DEF Start, Goto, redis, history
  <2>2. \A t \in Tasks, v \in Workers : Runs(v, t)' <=> Runs(v, t) \/ (v = w /\ t = x)
    BY <2>1 DEF Runs
  <2>3. \A t \in Tasks \ {x} : Waits(t)' <=> Waits(t)
    BY <2>1 DEF Waits
  <2>4. \A t \in Tasks \ {x} : Status(t)' = Status(t)
    BY <2>1, <2>2, <2>3, StatusKept
  <2>5. Status(x) = "accepted"
    BY <2>1, StatusOfPlace DEF StatusMatches, Waits
  <2>6. Status(x)' = "running"
    BY <2>2, StatusOfNextPlace DEF StatusMatches
  <2>7. Delivery!Become(x, "running")
    BY <2>1, <2>4, <2>6, OneBecomes
  <2> QED
    BY <2>5, <2>7 DEF Delivery!Next, Delivery!Begin
<1>6. ASSUME NEW w \in Workers, Finish(w) PROVE Step
  <2> DEFINE x == job[w]
  <2>1. /\ Runs(w, x) /\ x \in Tasks
        /\ ended' = ended \union {x} /\ pc' = [pc EXCEPT ![w] = "pulling"]
        /\ UNCHANGED <<queue, broker, pulled, job, faults, lost>>
    BY <1>6 DEF Finish, Goto, AfterTask, redis, Runs, Places
  <2>2. \A t \in Tasks \ {x}, v \in Workers : Runs(v, t)' <=> Runs(v, t)
    BY <2>1 DEF Runs
  <2>3. \A t \in Tasks : Waits(t)' <=> Waits(t)
    BY <2>1 DEF Waits
  <2>4. \A t \in Tasks \ {x} : Status(t)' = Status(t)
    BY <2>1, <2>2, <2>3, StatusKept
  <2>5. Status(x) = "running"
    BY <2>1, StatusOfPlace DEF StatusMatches
  <2>6. Status(x)' = "ended"
    BY <2>1, StatusOfNextPlace DEF StatusMatches
  <2>7. Delivery!Become(x, "ended")
    BY <2>1, <2>4, <2>6, OneBecomes
  <2> QED
    BY <2>1, <2>5, <2>7 DEF Delivery!Next, Delivery!End
<1>7. ASSUME NEW w \in Workers, Pull(w) PROVE Step
  <2> DEFINE h == Head(queue)
  <2>1. /\ queue # <<>> /\ queue' = Tail(queue)
        /\ pulled' = [pulled EXCEPT ![w] = Append(pulled[w], h)]
        /\ UNCHANGED <<broker, pc, job, faults, ended, lost>>
    BY <1>7 DEF Pull, AfterPop
  <2>2. h \in Tasks /\ In(h, queue)
    BY <2>1, InTail DEF Places
  <2>3. \A t \in Tasks : In(t, queue') <=> In(t, queue) /\ t # h
    BY <2>1, InTail DEF Places
  <2>4. \A t \in Tasks : In(t, pulled'[w]) <=> In(t, pulled[w]) \/ t = h
    BY <2>1, <2>2, InAppend
  <2>5. \A v \in Workers \ {w} : pulled'[v] = pulled[v]
    BY <2>1
  <2> HIDE DEF h
  <2>6. \A t \in Tasks : Waits(t)' <=> Waits(t)
    BY <2>1, <2>2, <2>3, <2>4, <2>5 DEF Waits
  <2>7. \A t \in Tasks, v \in Workers : Runs(v, t)' <=> Runs(v, t)
    BY <2>1 DEF Runs
  <2> QED
    BY <1>0, <2>1, <2>6, <2>7
<1>8. ASSUME NEW w \in Workers, Send(w) PROVE Step
  <2> DEFINE h == Head(pulled[w])
  <2>1. /\ pulled[w] # <<>> /\ pulled' = [pulled EXCEPT ![w] = Tail(pulled[w])]
        /\ broker' = broker \union {h} /\ pc[w] = "send" /\ pc'[w] # "running"
        /\ \A v \in Workers \ {w} : pc'[v] = pc[v]
        /\ UNCHANGED <<queue, job, faults, ended, lost>>
    BY <1>8 DEF Send, Goto, redis, history, DispatcherHoldsTask
  <2>2. h \in Tasks /\ In(h, pulled[w])
    BY <2>1, InTail DEF Places
  <2>3. \A t \in Tasks : In(t, pulled'[w]) <=> In(t, pulled[w]) /\ t # h
    BY <2>1, InTail DEF Places
  <2>4. \A v \in Workers \ {w} : pulled'[v] = pulled[v]
    BY <2>1
  <2> HIDE DEF h
  <2>5. \A t \in Tasks : Waits(t)' <=> Waits(t)
    BY <2>1, <2>2, <2>3, <2>4 DEF Waits
  <2>6. \A t \in Tasks, v \in Workers : Runs(v, t)' <=> Runs(v, t)
    BY <2>1 DEF Runs
  <2> QED
    BY <1>0, <2>1, <2>5, <2>6
<1>9. ASSUME NEW w \in Workers, WorkerFails(w) PROVE Step
  <2> DEFINE S == {t \in Tasks : With(w, t)}
  <2>1. /\ lost' = lost \union Held(w) /\ pulled' = [pulled EXCEPT ![w] = <<>>]
        /\ pc' = [pc EXCEPT ![w] = "idle"] /\ faults' = faults + 1
        /\ UNCHANGED <<queue, broker, job, ended>>
    BY <1>9 DEF WorkerFails, Goto, redis
  <2>2. \A t \in Tasks : t \in Held(w) <=> t \in S
    BY DEF Held, With, Runs, In
  <2>3. \A t \in Tasks \ S : Waits(t)' <=> Waits(t)
    BY <2>1, InEmpty DEF Waits, With
  <2>4. \A t \in Tasks \ S, v \in Workers : Runs(v, t)' <=> Runs(v, t)
    BY <2>1 DEF Runs, With
  <2>5. \A t \in Tasks \ S : Status(t)' = Status(t)
    BY <2>1, <2>2, <2>3, <2>4, StatusKept
  <2>6. \A t \in S : Status(t) \in {"accepted", "running"}
    BY StatusOfPlace DEF StatusMatches, With, Waits
  <2>7. \A t \in S : Status(t)' = "lost"
    BY <2>1, <2>2, StatusOfNextPlace DEF StatusMatches
  <2>8. faults' > 0
    BY <2>1, QueueAssumption
  <2>9. Delivery!Lose(S) /\ S \in SUBSET Tasks
    BY <2>5, <2>6, <2>7, <2>8, SomeAreLost
  <2> QED
    BY <2>9 DEF Delivery!Next
<1>10. ASSUME NEW x \in Tasks, DeliverFails(x) PROVE Step
  <2>1. UNCHANGED <<queue, broker, pulled, pc, job, ended, lost>> /\ faults' = faults + 1
    BY <1>10 DEF DeliverFails, redis, celery, history
  <2>2. \A t \in Tasks : Status(t)' = Status(t)
    BY <2>1, StatusKept DEF Waits, Runs
  <2>3. faults' > 0
    BY <2>1, QueueAssumption
  <2>4. Delivery!Lose({})
    BY <2>2, <2>3, SomeAreLost
  <2> QED
    BY <2>4 DEF Delivery!Next
<1> QED
  BY <1>1, <1>2, <1>3, <1>4, <1>5, <1>6, <1>7, <1>8, <1>9, <1>10 DEF Next, ClientStep, WorkerStep

(***************************************************************************)
(* The queue implements TaskDelivery: each task is accepted once, runs at  *)
(* most once, and is dropped only when a worker or the broker fails.       *)
(***************************************************************************)
THEOREM DeliveryHolds == Safety => ImplementsDelivery
<1>1. Init => Delivery!Init
  <2> SUFFICES ASSUME Init PROVE Delivery!Init
    OBVIOUS
  <2>1. \A t \in Tasks : Status(t) = "new"
    <3>1. Places /\ \A t \in Tasks : client[t] = "new"
      BY InitPlaces DEF Init
    <3> QED
      BY <3>1, StatusOfPlace DEF StatusMatches, Places, OnePlace
  <2>2. (faults > 0) = FALSE
    BY DEF Init
  <2> QED
    BY <2>1, <2>2 DEF Delivery!Init
<1>2. TypeInv /\ Places /\ Places' /\ [Next]_vars
        => [Delivery!Next]_<<[t \in Tasks |-> Status(t)], faults > 0>>
  BY NextDelivers
<1> QED
  BY <1>1, <1>2, TypeInvariant, PlacesHold, PTL DEF Safety, ImplementsDelivery, Delivery!Spec
=============================================================================
