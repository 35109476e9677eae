-------------------------- MODULE ThreadPool_proofs --------------------------
(***************************************************************************)
(* Proofs about ThreadPool, for any finite set of workers, any queue bound *)
(* and any number of tasks.                                                *)
(***************************************************************************)
EXTENDS ThreadPool, SequenceFacts, FiniteSetTheorems, TLAPS

-----------------------------------------------------------------------------
(* What TasksAccounted needs to be inductive: a running task is not one    *)
(* that has ended, nor another worker's, *)
RunningTasksDiffer ==
  /\ \A w \in Running : task[w] \in Task \ finished
  /\ \A v, w \in Running : v # w => task[v] # task[w]

(* and a task that was dropped or evicted never starts. *)
LostTasksStayLost ==
  /\ dropped \cap (Queued \cup Started \cup evicted) = {}
  /\ evicted \cap Started = {}

Accounts == TasksAccounted /\ RunningTasksDiffer /\ LostTasksStayLost

(* Where main can be, given the queue: it resubmits only under drop-oldest *)
(* and after an eviction, and a drained pool has nothing to do.            *)
MainAgrees ==
  /\ Len(queue) <= MaxQueueSize
  /\ main \in {"evict", "resubmit"} => policy = "drop-oldest" /\ next <= MaxTasks
  /\ main = "resubmit" => HasRoom
  /\ main \in {"drained", "joining", "done"} => queue = <<>> /\ active = 0

IInv == ThreadPoolTypeOK /\ Accounts /\ MainAgrees /\ NewestGetsIn

-----------------------------------------------------------------------------
(* Everything the counters count is finite. *)
LEMMA FiniteCounts ==
  ASSUME ThreadPoolTypeOK
  PROVE  /\ IsFiniteSet(Running) /\ Cardinality(Running) \in Nat
         /\ IsFiniteSet(finished) /\ Cardinality(finished) \in Nat
         /\ IsFiniteSet(dropped) /\ Cardinality(dropped) \in Nat
         /\ IsFiniteSet(evicted) /\ Cardinality(evicted) \in Nat
         /\ Len(queue) \in Nat
<1>1. IsFiniteSet(Task)
  BY FS_Interval, ThreadPoolAssumption DEF Task
<1>2. IsFiniteSet(Running) /\ Cardinality(Running) \in Nat
  BY FS_Subset, FS_CardinalityType, ThreadPoolAssumption DEF Running
<1>3. ASSUME NEW S \in SUBSET Task PROVE IsFiniteSet(S) /\ Cardinality(S) \in Nat
  BY <1>1, FS_Subset, FS_CardinalityType
<1>4. Len(queue) \in Nat
  BY DEF ThreadPoolTypeOK
<1> QED  BY <1>2, <1>3, <1>4 DEF ThreadPoolTypeOK

(* TakeTask: the head of the queue becomes a running task. *)
LEMMA TakeAccounts ==
  ASSUME ThreadPoolTypeOK, Accounts, NEW w \in Workers, TakeTask(w)
  PROVE  Accounts'
<1> DEFINE t == Head(queue)
<1>1. /\ t \in Queued /\ t \in Task
      /\ Queued = Queued' \cup {t}
      /\ Len(queue') = Len(queue) - 1
      /\ \A k \in 1 .. Len(queue') : k + 1 \in 1 .. Len(queue) /\ queue'[k] = queue[k + 1]
      /\ 1 \in 1 .. Len(queue) /\ t = queue[1]
  BY TailElements, TailDropsHead, SMT DEF TakeTask, ThreadPoolTypeOK, Queued
<1>2. /\ w \notin Running
      /\ Running' = Running \cup {w}
      /\ task'[w] = t
      /\ \A v \in Running : task'[v] = task[v] /\ v # w
  BY DEF TakeTask, WorkerAt, Running, ThreadPoolTypeOK
<1>3. UNCHANGED <<next, dropped, evicted, finished, completed>> /\ active' = active + 1
  BY DEF TakeTask, historyVars
<1>4. Started' = Started \cup {t}
  BY <1>2, <1>3 DEF Started
<1>5. \A u \in Started \cup evicted : u < t
  BY <1>1 DEF Accounts, TasksAccounted, OldestFirst
<1>6. t \notin Started /\ t \notin evicted
  BY <1>5, <1>1 DEF Task
<1>7. EveryTaskSomewhere'
  BY <1>1, <1>3, <1>4 DEF Accounts, TasksAccounted, EveryTaskSomewhere
<1>8. Cardinality(Running') = Cardinality(Running) + 1
  BY <1>2, FiniteCounts, FS_AddElement
<1>9. NoTaskTwice' /\ CountersAgree'
  BY <1>1, <1>3, <1>8, FiniteCounts DEF Accounts, TasksAccounted, NoTaskTwice, CountersAgree, ThreadPoolTypeOK
<1>10. OldestFirst'
  <2>1. ASSUME NEW k \in 1 .. Len(queue'), NEW u \in Started' \cup evicted' PROVE u < queue'[k]
    <3>1. k + 1 \in 1 .. Len(queue) /\ queue'[k] = queue[k + 1]
      BY <1>1
    <3>2. CASE u = t
      <4>1. 1 < k + 1
        BY <1>1 DEF ThreadPoolTypeOK
      <4> QED  BY <4>1, <3>1, <3>2, <1>1 DEF Accounts, TasksAccounted, OldestFirst
    <3>3. CASE u \in Started \cup evicted
      BY <3>1, <3>3 DEF Accounts, TasksAccounted, OldestFirst
    <3> QED  BY <3>2, <3>3, <1>3, <1>4
  <2>2. ASSUME NEW j \in 1 .. Len(queue'), NEW k \in 1 .. Len(queue'), j < k PROVE queue'[j] < queue'[k]
    <3>1. j + 1 < k + 1
      BY <2>2
    <3> QED  BY <3>1, <1>1 DEF Accounts, TasksAccounted, OldestFirst
  <2> QED  BY <2>1, <2>2 DEF OldestFirst
<1>11. RunningTasksDiffer'
  <2>1. \A v \in Running : task[v] \in Task \ finished /\ task[v] # t
    BY <1>6 DEF Accounts, RunningTasksDiffer, Started
  <2>2. \A v \in Running' : v # w => v \in Running /\ task'[v] = task[v]
    BY <1>2
  <2>3. t \notin finished
    BY <1>6 DEF Started
  <2>4. \A v \in Running' : task'[v] \in Task \ finished'
    BY <1>1, <1>2, <1>3, <2>1, <2>2, <2>3
  <2>5. \A u, v \in Running' : u # v => task'[u] # task'[v]
    BY <1>2, <2>1, <2>2, Zenon DEF Accounts, RunningTasksDiffer
  <2> QED  BY <2>4, <2>5 DEF RunningTasksDiffer
<1>12. LostTasksStayLost'
  BY <1>1, <1>3, <1>4, <1>6 DEF Accounts, LostTasksStayLost
<1> QED  BY <1>7, <1>9, <1>10, <1>11, <1>12 DEF Accounts, TasksAccounted

(* FinishTask: a running task becomes a finished one. *)
LEMMA FinishAccounts ==
  ASSUME ThreadPoolTypeOK, Accounts, NEW w \in Workers, FinishTask(w)
  PROVE  Accounts'
<1>1. /\ w \in Running
      /\ Running' = Running \ {w}
      /\ \A v \in Running' : task'[v] = task[v] /\ v # w /\ v \in Running
  BY DEF FinishTask, WorkerAt, Running, ThreadPoolTypeOK
<1>2. /\ UNCHANGED <<queue, next, dropped, evicted>>
      /\ finished' = finished \cup {task[w]}
      /\ active' = active - 1 /\ completed' = completed + 1
  BY DEF FinishTask
<1>3. Started' = Started
  BY <1>1, <1>2 DEF Started
<1>4. task[w] \in Task /\ task[w] \notin finished
  BY <1>1 DEF Accounts, RunningTasksDiffer
<1>5. /\ Cardinality(Running') = Cardinality(Running) - 1
      /\ Cardinality(finished') = Cardinality(finished) + 1
  BY <1>1, <1>2, <1>4, FiniteCounts, FS_AddElement, FS_RemoveElement
<1>6. Queued' = Queued
  BY <1>2 DEF Queued
<1>7. EveryTaskSomewhere' /\ OldestFirst'
  BY <1>2, <1>3, <1>6 DEF Accounts, TasksAccounted, EveryTaskSomewhere, OldestFirst
<1>8. NoTaskTwice' /\ CountersAgree'
  BY <1>2, <1>5, FiniteCounts DEF Accounts, TasksAccounted, NoTaskTwice, CountersAgree, ThreadPoolTypeOK
<1>9. RunningTasksDiffer'
  BY <1>1, <1>2, Zenon DEF Accounts, RunningTasksDiffer
<1>10. LostTasksStayLost'
  BY <1>2, <1>3, <1>6 DEF Accounts, LostTasksStayLost
<1> QED  BY <1>7, <1>8, <1>9, <1>10 DEF Accounts, TasksAccounted

(* Nobody starts or finishes a task. *)
LEMMA RunningTasksStay ==
  ASSUME RunningTasksDiffer, Running' = Running, UNCHANGED <<task, finished>>
  PROVE  RunningTasksDiffer'
  BY DEF RunningTasksDiffer

(* Steps that only move threads between their waits. *)
LEMMA QuietAccounts ==
  ASSUME Accounts, Running' = Running,
         UNCHANGED <<queue, active, completed, task, next, finished, dropped, evicted>>
  PROVE  Accounts'
<1>1. Queued' = Queued /\ Started' = Started
  BY DEF Queued, Started
<1>2. TasksAccounted'
  BY <1>1 DEF Accounts, TasksAccounted, EveryTaskSomewhere, NoTaskTwice, OldestFirst, CountersAgree
<1>3. RunningTasksDiffer'
  BY RunningTasksStay DEF Accounts
<1>4. LostTasksStayLost'
  BY <1>1 DEF Accounts, LostTasksStayLost
<1> QED  BY <1>2, <1>3, <1>4 DEF Accounts

(* What main has not submitted yet is nowhere. *)
LEMMA NextIsNew ==
  ASSUME ThreadPoolTypeOK, Accounts, next <= MaxTasks
  PROVE  /\ next \in Task
         /\ next \notin Queued \cup Started \cup dropped \cup evicted
         /\ \A t \in Queued \cup Started \cup dropped \cup evicted : t < next
         /\ 1 .. (next + 1) - 1 = (1 .. next - 1) \cup {next}
<1>1. next \in Nat \ {0}
  BY ThreadPoolAssumption DEF ThreadPoolTypeOK
<1>2. Queued \cup Started \cup dropped \cup evicted = 1 .. next - 1
  BY DEF Accounts, TasksAccounted, EveryTaskSomewhere
<1> QED  BY <1>1, <1>2, ThreadPoolAssumption DEF Task

(* Push: the next task joins the queue. *)
LEMMA PushAccounts ==
  ASSUME ThreadPoolTypeOK, Accounts, next <= MaxTasks,
         queue' = Append(queue, next), next' = next + 1, Running' = Running,
         UNCHANGED <<active, completed, task, finished, dropped, evicted>>
  PROVE  Accounts'
<1>1. next \in Task
  BY NextIsNew
<1>2. /\ Queued' = Queued \cup {next}
      /\ Len(queue') = Len(queue) + 1
      /\ \A k \in 1 .. Len(queue) : queue'[k] = queue[k]
      /\ queue'[Len(queue) + 1] = next
  BY <1>1, AppendElements, AppendAddsOne DEF ThreadPoolTypeOK, Queued
<1>3. Started' = Started
  BY DEF Started
<1>4. EveryTaskSomewhere'
  BY <1>2, <1>3, NextIsNew DEF Accounts, TasksAccounted, EveryTaskSomewhere
<1>5. NoTaskTwice' /\ CountersAgree'
  <2>1. Cardinality(Running') = Cardinality(Running) /\ next \in Nat
    BY ThreadPoolAssumption DEF ThreadPoolTypeOK
  <2>2. next - 1 = Len(queue) + Cardinality(Running) + Cardinality(finished)
                   + Cardinality(dropped) + Cardinality(evicted)
    BY DEF Accounts, TasksAccounted, NoTaskTwice
  <2>3. NoTaskTwice'
    BY <2>1, <2>2, <1>2, FiniteCounts, SMTT(30) DEF NoTaskTwice
  <2>4. CountersAgree'
    BY <2>1 DEF Accounts, TasksAccounted, CountersAgree
  <2> QED  BY <2>3, <2>4
<1>6. OldestFirst'
  <2>1. Len(queue) \in Nat
    BY FiniteCounts
  <2>2. \A k \in 1 .. Len(queue') : k = Len(queue) + 1 \/ k \in 1 .. Len(queue)
    BY <2>1, <1>2
  <2>3. ASSUME NEW k \in 1 .. Len(queue'), NEW t \in Started \cup evicted PROVE t < queue'[k]
    <3>1. CASE k = Len(queue) + 1
      BY <3>1, <1>2, NextIsNew
    <3>2. CASE k \in 1 .. Len(queue)
      BY <3>2, <1>2 DEF Accounts, TasksAccounted, OldestFirst
    <3> QED  BY <3>1, <3>2, <2>2
  <2>4. ASSUME NEW j \in 1 .. Len(queue'), NEW k \in 1 .. Len(queue'), j < k PROVE queue'[j] < queue'[k]
    <3>1. j \in 1 .. Len(queue)
      BY <2>1, <2>4, <1>2
    <3>2. queue'[j] = queue[j] /\ queue[j] \in Queued
      BY <3>1, <1>2 DEF Queued
    <3>3. CASE k = Len(queue) + 1
      BY <3>2, <3>3, <1>2, NextIsNew
    <3>4. CASE k \in 1 .. Len(queue)
      BY <2>4, <3>1, <3>4, <1>2 DEF Accounts, TasksAccounted, OldestFirst
    <3> QED  BY <3>3, <3>4, <2>2
  <2> QED  BY <2>3, <2>4, <1>3 DEF OldestFirst
<1>7. RunningTasksDiffer'
  BY RunningTasksStay DEF Accounts
<1>8. LostTasksStayLost'
  BY <1>2, <1>3, NextIsNew DEF Accounts, LostTasksStayLost
<1> QED  BY <1>4, <1>5, <1>6, <1>7, <1>8 DEF Accounts, TasksAccounted

(* The next task is dropped. *)
LEMMA DropAccounts ==
  ASSUME ThreadPoolTypeOK, Accounts, next <= MaxTasks,
         dropped' = dropped \cup {next}, next' = next + 1, Running' = Running,
         UNCHANGED <<queue, active, completed, task, finished, evicted>>
  PROVE  Accounts'
<1>1. Queued' = Queued /\ Started' = Started
  BY DEF Queued, Started
<1>2. EveryTaskSomewhere'
  BY <1>1, NextIsNew DEF Accounts, TasksAccounted, EveryTaskSomewhere
<1>3. Cardinality(dropped') = Cardinality(dropped) + 1
  BY FiniteCounts, FS_AddElement, NextIsNew
<1>4. NoTaskTwice' /\ CountersAgree'
  <2>1. Cardinality(Running') = Cardinality(Running) /\ next \in Nat
    BY ThreadPoolAssumption DEF ThreadPoolTypeOK
  <2> QED  BY <2>1, <1>3, FiniteCounts DEF Accounts, TasksAccounted, NoTaskTwice, CountersAgree
<1>5. OldestFirst' /\ RunningTasksDiffer'
  BY <1>1, RunningTasksStay DEF Accounts, TasksAccounted, OldestFirst
<1>6. LostTasksStayLost'
  BY <1>1, NextIsNew DEF Accounts, LostTasksStayLost
<1> QED  BY <1>2, <1>4, <1>5, <1>6 DEF Accounts, TasksAccounted

(* EvictOldest: the head of the queue is lost. *)
LEMMA EvictAccounts ==
  ASSUME ThreadPoolTypeOK, Accounts, queue # <<>>,
         queue' = Tail(queue), evicted' = evicted \cup {Head(queue)}, Running' = Running,
         UNCHANGED <<active, completed, task, next, finished, dropped>>
  PROVE  Accounts'
<1> DEFINE t == Head(queue)
<1>1. /\ t \in Queued /\ t \in Task
      /\ Queued = Queued' \cup {t}
      /\ Len(queue') = Len(queue) - 1
      /\ \A k \in 1 .. Len(queue') : k + 1 \in 1 .. Len(queue) /\ queue'[k] = queue[k + 1]
      /\ 1 \in 1 .. Len(queue) /\ t = queue[1]
  BY TailElements, TailDropsHead, SMT DEF ThreadPoolTypeOK, Queued
<1>2. Started' = Started
  BY DEF Started
<1>3. \A u \in Started \cup evicted : u < t
  BY <1>1 DEF Accounts, TasksAccounted, OldestFirst
<1>4. t \notin Started /\ t \notin evicted
  BY <1>3, <1>1 DEF Task
<1>5. EveryTaskSomewhere'
  BY <1>1, <1>2 DEF Accounts, TasksAccounted, EveryTaskSomewhere
<1>6. Cardinality(evicted') = Cardinality(evicted) + 1
  BY <1>4, FiniteCounts, FS_AddElement
<1>7. NoTaskTwice' /\ CountersAgree'
  <2>1. Cardinality(Running') = Cardinality(Running) /\ next \in Nat
    BY ThreadPoolAssumption DEF ThreadPoolTypeOK
  <2> QED  BY <2>1, <1>1, <1>6, FiniteCounts DEF Accounts, TasksAccounted, NoTaskTwice, CountersAgree
<1>8. OldestFirst'
  <2>1. ASSUME NEW k \in 1 .. Len(queue'), NEW u \in Started' \cup evicted' PROVE u < queue'[k]
    <3>1. k + 1 \in 1 .. Len(queue) /\ queue'[k] = queue[k + 1]
      BY <1>1
    <3>2. CASE u = t
      <4>1. 1 < k + 1
        BY <1>1 DEF ThreadPoolTypeOK
      <4> QED  BY <4>1, <3>1, <3>2, <1>1 DEF Accounts, TasksAccounted, OldestFirst
    <3>3. CASE u \in Started \cup evicted
      BY <3>1, <3>3 DEF Accounts, TasksAccounted, OldestFirst
    <3> QED  BY <3>2, <3>3, <1>2
  <2>2. ASSUME NEW j \in 1 .. Len(queue'), NEW k \in 1 .. Len(queue'), j < k PROVE queue'[j] < queue'[k]
    <3>1. j + 1 < k + 1
      BY <2>2
    <3> QED  BY <3>1, <1>1 DEF Accounts, TasksAccounted, OldestFirst
  <2> QED  BY <2>1, <2>2 DEF OldestFirst
<1>9. RunningTasksDiffer'
  BY RunningTasksStay DEF Accounts
<1>10. LostTasksStayLost'
  BY <1>1, <1>2, <1>4 DEF Accounts, LostTasksStayLost
<1> QED  BY <1>5, <1>7, <1>8, <1>9, <1>10 DEF Accounts, TasksAccounted

-----------------------------------------------------------------------------
(* The counters tell whether anybody is at work. *)
LEMMA ActiveCounts ==
  ASSUME ThreadPoolTypeOK, Accounts
  PROVE  /\ active = 0 <=> Running = {}
         /\ Running # {} => active - 1 \in Nat
<1>1. active = Cardinality(Running)
  BY DEF Accounts, TasksAccounted, CountersAgree
<1>2. Cardinality(Running) = 0 <=> Running = {}
  BY FiniteCounts, FS_EmptySet
<1> QED  BY <1>1, <1>2, FiniteCounts

(* NotifyOne moves a worker that was asleep, if any; none starts or stops  *)
(* running.                                                                *)
LEMMA NotifyOneRuns ==
  ASSUME ThreadPoolTypeOK, NotifyOne
  PROVE  /\ worker' \in [Workers -> {"test", "asleep", "running", "notify", "exited"}]
         /\ Running' = Running
<1>1. CASE worker' = worker
  BY <1>1 DEF ThreadPoolTypeOK, Running
<1>2. CASE \E w \in Asleep : worker' = [worker EXCEPT ![w] = "test"]
  BY <1>2 DEF ThreadPoolTypeOK, Running, Asleep
<1> QED  BY <1>1, <1>2 DEF NotifyOne

(* A worker's step. *)
LEMMA WorkerInv ==
  ASSUME IInv, NEW w \in Workers, WorkerStep(w) \/ SpuriousWakeup(w)
  PROVE  IInv'
<1> USE DEF IInv, ThreadPoolTypeOK, MainAgrees, NewestGetsIn, HasRoom, WorkerAt, poolVars, historyVars
<1>1. CASE TakeTask(w)
  <2>1. Accounts'
    BY <1>1, TakeAccounts
  <2>2. Head(queue) \in Task /\ Tail(queue) \in Seq(Task) /\ Len(Tail(queue)) = Len(queue) - 1
    BY <1>1, TailElements DEF TakeTask
  <2>3. ThreadPoolTypeOK'
    BY <1>1, <2>2 DEF TakeTask
  <2>4. MainAgrees' /\ NewestGetsIn'
    BY <1>1, <2>2, ThreadPoolAssumption DEF TakeTask
  <2> QED  BY <2>1, <2>3, <2>4
<1>2. CASE FinishTask(w)
  <2>1. Accounts'
    BY <1>2, FinishAccounts
  <2>2. w \in Running
    BY <1>2 DEF FinishTask, Running
  <2>3. active - 1 \in Nat /\ active # 0
    BY <2>2, ActiveCounts
  <2>4. task[w] \in Task
    BY <2>2 DEF Accounts, RunningTasksDiffer
  <2>5. ThreadPoolTypeOK'
    BY <1>2, <2>3, <2>4 DEF FinishTask
  <2>6. MainAgrees' /\ NewestGetsIn'
    BY <1>2, <2>3 DEF FinishTask
  <2> QED  BY <2>1, <2>5, <2>6
<1>3. CASE WorkerExits(w) \/ WorkerSleeps(w) \/ NotifyDrain(w) \/ SpuriousWakeup(w)
  <2> USE <1>3 DEF WorkerExits, WorkerSleeps, NotifyDrain, SpuriousWakeup
  <2>1. ThreadPoolTypeOK'
    OBVIOUS
  <2>2. Running' = Running
    BY DEF Running
  <2>3. UNCHANGED <<queue, active, completed, task, next, finished, dropped, evicted>>
    OBVIOUS
  <2>4. Accounts'
    BY <2>2, <2>3, QuietAccounts
  <2>5. MainAgrees' /\ NewestGetsIn'
    OBVIOUS
  <2> QED  BY <2>1, <2>4, <2>5
<1> QED  BY <1>1, <1>2, <1>3 DEF WorkerStep

(* main submits the next task, at the first or the second attempt. *)
LEMMA SubmitInv ==
  ASSUME IInv, next <= MaxTasks, main \in {"loop", "resubmit"}, Push, Advance,
         UNCHANGED <<stop, active, completed, task, policy, historyVars>>
  PROVE  IInv'
<1> USE DEF IInv, historyVars
<1>1. worker' \in [Workers -> {"test", "asleep", "running", "notify", "exited"}] /\ Running' = Running
  BY NotifyOneRuns DEF Push
<1>2. next \in Task /\ next + 1 \in 1 .. MaxTasks + 1
  BY ThreadPoolAssumption DEF ThreadPoolTypeOK, Task
<1>3. /\ queue' = Append(queue, next) /\ next' = next + 1 /\ main' = "loop"
      /\ Len(queue) < MaxQueueSize
  BY DEF Push, Advance, HasRoom
<1>4. queue' \in Seq(Task) /\ Len(queue') = Len(queue) + 1
  BY <1>2, <1>3, AppendElements DEF ThreadPoolTypeOK
<1>5. ThreadPoolTypeOK'
  BY <1>1, <1>2, <1>3, <1>4 DEF ThreadPoolTypeOK
<1>6. Accounts'
  BY <1>1, <1>3, PushAccounts
<1>7. MainAgrees' /\ NewestGetsIn'
  BY <1>3, <1>4, FiniteCounts, ThreadPoolAssumption DEF MainAgrees, NewestGetsIn
<1> QED  BY <1>5, <1>6, <1>7

(* submit fails: with drop-newest the task is dropped, with drop-oldest    *)
(* main goes on to evict.                                                  *)
LEMMA RefusedInv ==
  ASSUME IInv, SubmitRefused
  PROVE  IInv'
<1> USE DEF IInv, SubmitRefused, poolVars
<1>1. Running' = Running
  BY DEF Running
<1>2. CASE policy = "drop-oldest"
  <2>1. UNCHANGED <<queue, active, completed, task, next, finished, dropped, evicted>>
    BY <1>2
  <2>2. Accounts'
    BY <1>1, <2>1, QuietAccounts
  <2>3. ThreadPoolTypeOK' /\ MainAgrees' /\ NewestGetsIn'
    BY <1>2 DEF ThreadPoolTypeOK, MainAgrees, NewestGetsIn
  <2> QED  BY <2>2, <2>3
<1>3. CASE policy # "drop-oldest"
  <2>1. next \in Task /\ next + 1 \in 1 .. MaxTasks + 1
    BY ThreadPoolAssumption DEF ThreadPoolTypeOK, Task
  <2>2. dropped' = dropped \cup {next} /\ next' = next + 1 /\ main' = "loop"
    BY <1>3 DEF Advance
  <2>3. Accounts'
    BY <1>1, <2>2, DropAccounts
  <2>4. ThreadPoolTypeOK'
    BY <2>1, <2>2 DEF ThreadPoolTypeOK
  <2>5. MainAgrees' /\ NewestGetsIn'
    BY <1>3, <2>2 DEF MainAgrees, NewestGetsIn
  <2> QED  BY <2>3, <2>4, <2>5
<1> QED  BY <1>2, <1>3

(* evict_oldest leaves room, whether it found a task to evict or not. *)
LEMMA EvictInv ==
  ASSUME IInv, EvictOldest
  PROVE  IInv'
<1> USE DEF IInv, EvictOldest
<1>1. Running' = Running
  BY DEF Running
<1>2. CASE queue = <<>>
  <2>1. UNCHANGED <<queue, active, completed, task, next, finished, dropped, evicted>> /\ main' = "resubmit"
    BY <1>2
  <2>2. Accounts'
    BY <1>1, <2>1, QuietAccounts
  <2>3. ThreadPoolTypeOK' /\ NewestGetsIn'
    BY <2>1 DEF ThreadPoolTypeOK, NewestGetsIn
  <2>4. Len(queue) = 0
    BY <1>2
  <2>5. MainAgrees'
    BY <2>1, <2>4, ThreadPoolAssumption DEF MainAgrees, HasRoom
  <2> QED  BY <2>2, <2>3, <2>5
<1>3. CASE queue # <<>>
  <2>1. /\ queue' = Tail(queue) /\ evicted' = evicted \cup {Head(queue)} /\ main' = "resubmit"
        /\ UNCHANGED <<active, completed, task, next, finished, dropped>>
    BY <1>3
  <2>2. /\ Head(queue) \in Task /\ Tail(queue) \in Seq(Task)
        /\ Len(Tail(queue)) = Len(queue) - 1 /\ Len(queue) \in Nat
    BY <1>3, TailElements DEF ThreadPoolTypeOK
  <2>3. Accounts'
    BY <1>1, <1>3, <2>1, EvictAccounts
  <2>4. ThreadPoolTypeOK' /\ NewestGetsIn'
    BY <2>1, <2>2 DEF ThreadPoolTypeOK, NewestGetsIn
  <2>5. Len(queue') = Len(queue) - 1
    BY <2>1, <2>2
  <2>6. MainAgrees'
    BY <2>1, <2>2, <2>5, ThreadPoolAssumption DEF MainAgrees, HasRoom
  <2> QED  BY <2>3, <2>4, <2>6
<1> QED  BY <1>2, <1>3

(* The second submit: the room the eviction made is still there. *)
LEMMA ResubmitInv ==
  ASSUME IInv, Resubmit
  PROVE  IInv'
<1>1. HasRoom /\ next <= MaxTasks
  BY DEF IInv, MainAgrees, Resubmit
<1>2. Push /\ Advance /\ UNCHANGED <<stop, active, completed, task, policy, historyVars>>
  BY <1>1 DEF Resubmit, historyVars
<1> QED  BY <1>1, <1>2, SubmitInv DEF Resubmit

(* main leaves the loop, drains the pool, destroys it and joins its        *)
(* workers.                                                                *)
LEMMA ShutdownInv ==
  ASSUME IInv, LeaveLoop \/ Drain \/ DrainSpuriousWakeup \/ DestroyPool \/ JoinWorkers
  PROVE  IInv'
<1> USE DEF IInv, LeaveLoop, Drain, DrainSpuriousWakeup, DestroyPool, JoinWorkers, poolVars, historyVars
<1>1. UNCHANGED <<queue, active, completed, task, next, policy, finished, dropped, evicted>>
  OBVIOUS
<1>2. ThreadPoolTypeOK'
  BY DEF ThreadPoolTypeOK
<1>3. Running' = Running
  <2>1. CASE DestroyPool
    BY <2>1 DEF Running, Asleep
  <2>2. CASE ~ DestroyPool
    BY <2>2 DEF Running
  <2> QED  BY <2>1, <2>2
<1>4. Accounts'
  BY <1>1, <1>3, QuietAccounts
<1>5. MainAgrees' /\ NewestGetsIn'
  BY <1>1 DEF MainAgrees, NewestGetsIn, HasRoom
<1> QED  BY <1>2, <1>4, <1>5

(* IInv is inductive. *)
LEMMA NextInv == IInv /\ [Next]_vars => IInv'
<1> SUFFICES ASSUME IInv, [Next]_vars PROVE IInv'
  OBVIOUS
<1>1. ASSUME NEW w \in Workers, WorkerStep(w) \/ SpuriousWakeup(w) PROVE IInv'
  BY <1>1, WorkerInv
<1>2. CASE Submit
  BY <1>2, SubmitInv DEF Submit
<1>3. CASE SubmitRefused
  BY <1>3, RefusedInv
<1>4. CASE MainStep
  BY <1>4, EvictInv, ResubmitInv, ShutdownInv DEF MainStep
<1>5. CASE LeaveLoop \/ DrainSpuriousWakeup
  BY <1>5, ShutdownInv
<1>6. CASE UNCHANGED vars
  <2> USE <1>6 DEF vars, poolVars, historyVars, IInv
  <2>1. Running' = Running
    BY DEF Running
  <2>2. UNCHANGED <<queue, active, completed, task, next, finished, dropped, evicted>>
    OBVIOUS
  <2>3. Accounts'
    BY <2>1, <2>2, QuietAccounts
  <2>4. ThreadPoolTypeOK' /\ MainAgrees' /\ NewestGetsIn'
    BY DEF ThreadPoolTypeOK, MainAgrees, NewestGetsIn, HasRoom
  <2> QED  BY <2>3, <2>4
<1> QED  BY <1>1, <1>2, <1>3, <1>4, <1>5, <1>6 DEF Next

(* The pool starts idle and empty. *)
LEMMA InitInv == Init => IInv
<1> SUFFICES ASSUME Init PROVE IInv
  OBVIOUS
<1> USE DEF Init
<1>1. Len(queue) = 0 /\ queue \in Seq(Task)
  OBVIOUS
<1>2. next \in 1 .. MaxTasks + 1
  BY ThreadPoolAssumption
<1>3. task \in [Workers -> Task \cup {NoTask}]
  OBVIOUS
<1>4. worker \in [Workers -> {"test", "asleep", "running", "notify", "exited"}]
  OBVIOUS
<1>5. ThreadPoolTypeOK
  BY <1>1, <1>2, <1>3, <1>4, Zenon DEF ThreadPoolTypeOK
<1>6. MainAgrees /\ NewestGetsIn
  BY <1>1, ThreadPoolAssumption DEF MainAgrees, NewestGetsIn
<1>7. Running = {} /\ Queued = {} /\ Started = {}
  BY DEF Running, Queued, Started
<1>8. TasksAccounted
  <2>1. EveryTaskSomewhere /\ OldestFirst
    BY <1>7 DEF EveryTaskSomewhere, OldestFirst
  <2>2. NoTaskTwice /\ CountersAgree
    BY <1>7, FS_EmptySet DEF NoTaskTwice, CountersAgree
  <2> QED  BY <2>1, <2>2 DEF TasksAccounted
<1>9. RunningTasksDiffer /\ LostTasksStayLost
  BY <1>7 DEF RunningTasksDiffer, LostTasksStayLost
<1> QED  BY <1>5, <1>6, <1>8, <1>9 DEF IInv, Accounts

LEMMA InvAlways == Spec => []IInv
  BY InitInv, NextInv, PTL DEF Spec

-----------------------------------------------------------------------------
(* Type correctness: tasks in the queue and with the workers are ones main *)
(* submitted, and neither active_ nor completed_, which are size_t, ever   *)
(* wraps below zero.                                                       *)
THEOREM PoolTypeCorrect == Spec => []ThreadPoolTypeOK
<1>1. IInv => ThreadPoolTypeOK
  BY DEF IInv
<1> QED  BY <1>1, InvAlways, PTL

(* No task is lost or run twice, tasks start in the order they were        *)
(* submitted, and active_ and completed_ agree with what the workers did.  *)
THEOREM AllTasksAccounted == Spec => []TasksAccounted
<1>1. IInv => TasksAccounted
  BY DEF IInv, Accounts
<1> QED  BY <1>1, InvAlways, PTL

(* Under --vlm-drop-policy drop-oldest the second submit, whose result     *)
(* main ignores, never fails.                                              *)
THEOREM NewestAlwaysGetsIn == Spec => []NewestGetsIn
<1>1. IInv => NewestGetsIn
  BY DEF IInv
<1> QED  BY <1>1, InvAlways, PTL

(* When drain has returned, every task main submitted has run to its end,  *)
(* but those dropped or evicted.                                           *)
THEOREM DrainWaitsForAll == Spec => []DrainIsComplete
<1>1. IInv => DrainIsComplete
  <2> SUFFICES ASSUME IInv, main \in {"drained", "joining", "done"}
               PROVE  finished = (1 .. next - 1) \ (dropped \cup evicted)
    BY DEF DrainIsComplete
  <2>1. queue = <<>> /\ active = 0
    BY DEF IInv, MainAgrees
  <2>2. Queued = {} /\ Running = {}
    BY <2>1, ActiveCounts DEF IInv, Queued
  <2>3. Started = finished
    BY <2>2 DEF Started
  <2> QED  BY <2>2, <2>3 DEF IInv, Accounts, TasksAccounted, EveryTaskSomewhere, LostTasksStayLost
<1> QED  BY <1>1, InvAlways, PTL

=============================================================================
