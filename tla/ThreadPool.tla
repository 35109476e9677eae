------------------------------ MODULE ThreadPool ------------------------------
(***************************************************************************)
(* The VLM thread pool (vlm_pipeline/dmabuf_consumer/src/vlm/              *)
(* thread_pool.cpp) and the one thread that uses it, consumer_demo's main: *)
(* it submits a task per frame; when the queue is full it drops that task, *)
(* or evicts the oldest and submits again; at the end it drains the pool   *)
(* and destroys it.                                                        *)
(*                                                                         *)
(* All state is under mutex_, so the code between two waits or unlocks is  *)
(* one step.  A thread that waits on a condition variable is in the set of *)
(* sleepers until a notification, or a spurious wakeup, takes it out; it   *)
(* then evaluates the predicate of its wait again.                         *)
(***************************************************************************)
EXTENDS Integers, Sequences, FiniteSets

CONSTANTS Workers,
          MaxQueueSize,     \* max_queue_size_
          MaxTasks          \* bound: frames that reach the VLM path

(* The command line is not checked (atoi), but its defaults are in range.  *)
(* The workers are a vector of threads.                                    *)
ASSUME ThreadPoolAssumption ==
  /\ Workers # {} /\ IsFiniteSet(Workers)
  /\ MaxQueueSize \in Nat \ {0}
  /\ MaxTasks \in Nat

Policy == {"drop-newest", "drop-oldest"}

VARIABLES queue,        \* queue_, of task numbers
          stop,         \* stop_
          active,       \* active_
          completed,    \* completed_
          worker,       \* where each worker is
          task,         \* its local variable task
          main,         \* where main is
          next,         \* the task main submits next
          policy,       \* --vlm-drop-policy
          finished,     \* tasks that have run to their end
          dropped,      \* tasks whose submit failed for good
          evicted       \* tasks evict_oldest removed

poolVars == <<queue, stop, active, completed>>
historyVars == <<finished, dropped, evicted>>
vars == <<poolVars, worker, task, main, next, policy, historyVars>>

Task == 1 .. MaxTasks

NoTask == 0

(* The queue and the workers hold tasks that were submitted, and the counters*)
(* active_ and completed_, which are unsigned, never go below zero.        *)
ThreadPoolTypeOK ==
  /\ queue \in Seq(Task)
  /\ stop \in BOOLEAN
  /\ active \in Nat
  /\ completed \in Nat
  /\ worker \in [Workers -> {"test", "asleep", "running", "notify", "exited"}]
  /\ task \in [Workers -> Task \cup {NoTask}]
  /\ main \in {"loop", "evict", "resubmit", "drain", "asleep", "drained", "joining", "done"}
  /\ next \in 1 .. MaxTasks + 1
  /\ policy \in Policy
  /\ finished \subseteq Task
  /\ dropped \subseteq Task
  /\ evicted \subseteq Task

Init ==
  /\ queue = <<>>
  /\ stop = FALSE
  /\ active = 0
  /\ completed = 0
  /\ worker = [w \in Workers |-> "test"]
  /\ task = [w \in Workers |-> NoTask]
  /\ main = "loop"
  /\ next = 1
  /\ policy \in Policy
  /\ finished = {}
  /\ dropped = {}
  /\ evicted = {}

Asleep == {w \in Workers : worker[w] = "asleep"}

-----------------------------------------------------------------------------
(* The workers. *)

WorkerAt(w, from, to) ==
  /\ worker[w] = from
  /\ worker' = [worker EXCEPT ![w] = to]

(* Mutant: a dequeued task does not count as active. *)
TakeTaskUncounted(w) ==
  /\ queue # <<>>
  /\ WorkerAt(w, "test", "running")
  /\ task' = [task EXCEPT ![w] = Head(queue)]
  /\ queue' = Tail(queue)
  /\ UNCHANGED <<stop, active, completed, main, next, policy, historyVars>>

(* The predicate of the wait holds and there is a task. *)
TakeTask(w) ==
  /\ queue # <<>>
  /\ WorkerAt(w, "test", "running")
  /\ task' = [task EXCEPT ![w] = Head(queue)]
  /\ queue' = Tail(queue)
  /\ active' = active + 1
  /\ UNCHANGED <<stop, completed, main, next, policy, historyVars>>

(* It holds because of stop_: the worker returns. *)
WorkerExits(w) ==
  /\ queue = <<>>
  /\ stop
  /\ WorkerAt(w, "test", "exited")
  /\ UNCHANGED <<poolVars, task, main, next, policy, historyVars>>

WorkerSleeps(w) ==
  /\ queue = <<>>
  /\ ~ stop
  /\ WorkerAt(w, "test", "asleep")
  /\ UNCHANGED <<poolVars, task, main, next, policy, historyVars>>

SpuriousWakeup(w) ==
  /\ WorkerAt(w, "asleep", "test")
  /\ UNCHANGED <<poolVars, task, main, next, policy, historyVars>>

(* task() has returned: the counters are updated under the lock. *)
FinishTask(w) ==
  /\ WorkerAt(w, "running", "notify")
  /\ active' = active - 1
  /\ completed' = completed + 1
  /\ finished' = finished \cup {task[w]}
  /\ task' = [task EXCEPT ![w] = NoTask]
  /\ UNCHANGED <<queue, stop, main, next, policy, dropped, evicted>>

(* drain_cv_.notify_all, without the lock. *)
NotifyDrain(w) ==
  /\ WorkerAt(w, "notify", "test")
  /\ main' = IF main = "asleep" THEN "drain" ELSE main
  /\ UNCHANGED <<poolVars, task, next, policy, historyVars>>

WorkerStep(w) ==
  \/ TakeTask(w)
  \/ WorkerExits(w)
  \/ WorkerSleeps(w)
  \/ FinishTask(w)
  \/ NotifyDrain(w)

-----------------------------------------------------------------------------
(* main. *)

(* cv_.notify_one: some sleeper, if there is one, stops sleeping. *)
NotifyOne ==
  IF Asleep = {} THEN worker' = worker
  ELSE \E w \in Asleep : worker' = [worker EXCEPT ![w] = "test"]

HasRoom == Len(queue) < MaxQueueSize

Advance ==
  /\ next' = next + 1
  /\ main' = "loop"

(* Mutant: nobody is told of the new task. *)
PushQuietly ==
  /\ HasRoom
  /\ queue' = Append(queue, next)
  /\ worker' = worker

(* submit, when it returns true *)
Push ==
  /\ HasRoom
  /\ queue' = Append(queue, next)
  /\ NotifyOne

Submit ==
  /\ main = "loop"
  /\ next <= MaxTasks
  /\ Push
  /\ Advance
  /\ UNCHANGED <<stop, active, completed, task, policy, historyVars>>

(* submit returns false; --vlm-drop-policy says what then. *)
SubmitRefused ==
  /\ main = "loop"
  /\ next <= MaxTasks
  /\ ~ HasRoom
  /\ IF policy = "drop-oldest"
     THEN main' = "evict" /\ UNCHANGED <<next, dropped>>
     ELSE Advance /\ dropped' = dropped \cup {next}
  /\ UNCHANGED <<poolVars, worker, task, policy, finished, evicted>>

(* Mutant: the task evicted is the one submitted last. *)
EvictNewest ==
  /\ main = "evict"
  /\ main' = "resubmit"
  /\ IF queue = <<>>
     THEN UNCHANGED <<queue, evicted>>
     ELSE /\ queue' = SubSeq(queue, 1, Len(queue) - 1)
          /\ evicted' = evicted \cup {queue[Len(queue)]}
  /\ UNCHANGED <<stop, active, completed, worker, task, next, policy, finished, dropped>>

(* Mutant: only a queue beyond its bound is trimmed. *)
EvictIfOver ==
  /\ main = "evict"
  /\ main' = "resubmit"
  /\ IF Len(queue) <= MaxQueueSize
     THEN UNCHANGED <<queue, evicted>>
     ELSE /\ queue' = Tail(queue)
          /\ evicted' = evicted \cup {Head(queue)}
  /\ UNCHANGED <<stop, active, completed, worker, task, next, policy, finished, dropped>>

(* evict_oldest.  The workers may have emptied the queue meanwhile. *)
EvictOldest ==
  /\ main = "evict"
  /\ main' = "resubmit"
  /\ IF queue = <<>>
     THEN UNCHANGED <<queue, evicted>>
     ELSE /\ queue' = Tail(queue)
          /\ evicted' = evicted \cup {Head(queue)}
  /\ UNCHANGED <<stop, active, completed, worker, task, next, policy, finished, dropped>>

(* The second submit, whose answer main does not look at. *)
Resubmit ==
  /\ main = "resubmit"
  /\ IF HasRoom
     THEN Push /\ UNCHANGED dropped
     ELSE dropped' = dropped \cup {next} /\ UNCHANGED <<queue, worker>>
  /\ Advance
  /\ UNCHANGED <<stop, active, completed, task, policy, finished, evicted>>

(* The frame loop ends: num_frames are read, g_shutdown is set, or the     *)
(* relay is closed.                                                        *)
LeaveLoop ==
  /\ main = "loop"
  /\ main' = "drain"
  /\ UNCHANGED <<poolVars, worker, task, next, policy, historyVars>>

(* Mutant: drain waits for the queue only. *)
DrainQueueOnly ==
  /\ main = "drain"
  /\ main' = IF queue = <<>> THEN "drained" ELSE "asleep"
  /\ UNCHANGED <<poolVars, worker, task, next, policy, historyVars>>

(* drain evaluates its predicate. *)
Drain ==
  /\ main = "drain"
  /\ main' = IF queue = <<>> /\ active = 0 THEN "drained" ELSE "asleep"
  /\ UNCHANGED <<poolVars, worker, task, next, policy, historyVars>>

DrainSpuriousWakeup ==
  /\ main = "asleep"
  /\ main' = "drain"
  /\ UNCHANGED <<poolVars, worker, task, next, policy, historyVars>>

(* Mutant: the destructor wakes one worker. *)
DestroyPoolNotifyOne ==
  /\ main = "drained"
  /\ main' = "joining"
  /\ stop' = TRUE
  /\ NotifyOne
  /\ UNCHANGED <<queue, active, completed, task, next, policy, historyVars>>

(* ~ThreadPool: stop_ is set and every worker woken, *)
DestroyPool ==
  /\ main = "drained"
  /\ main' = "joining"
  /\ stop' = TRUE
  /\ worker' = [w \in Workers |-> IF w \in Asleep THEN "test" ELSE worker[w]]
  /\ UNCHANGED <<queue, active, completed, task, next, policy, historyVars>>

(* then they are joined. *)
JoinWorkers ==
  /\ main = "joining"
  /\ \A w \in Workers : worker[w] = "exited"
  /\ main' = "done"
  /\ UNCHANGED <<poolVars, worker, task, next, policy, historyVars>>

(* What main does of itself, unlike LeaveLoop and the wakeups. *)
MainStep ==
  \/ EvictOldest
  \/ Resubmit
  \/ Drain
  \/ DestroyPool
  \/ JoinWorkers

-----------------------------------------------------------------------------

Next ==
  \/ \E w \in Workers : WorkerStep(w) \/ SpuriousWakeup(w)
  \/ Submit
  \/ SubmitRefused
  \/ LeaveLoop
  \/ MainStep
  \/ DrainSpuriousWakeup

Spec == Init /\ [][Next]_vars

(* The threads are scheduled and a task ends (its HTTP request has a       *)
(* timeout).  No wakeup comes of itself.                                   *)
FairSpec ==
  /\ Spec
  /\ \A w \in Workers : WF_vars(WorkerStep(w))
  /\ WF_vars(MainStep)

-----------------------------------------------------------------------------

Running == {w \in Workers : worker[w] = "running"}

Queued == {queue[k] : k \in 1 .. Len(queue)}

(* Tasks a worker has dequeued. *)
Started == finished \cup {task[w] : w \in Running}

(* What became of the tasks main is done with. *)
EveryTaskSomewhere ==
  1 .. next - 1 = Queued \cup Started \cup dropped \cup evicted

(* They are started in the order they were submitted, and those evicted    *)
(* are older than those still queued.                                      *)
OldestFirst ==
  /\ \A k \in 1 .. Len(queue), t \in Started \cup evicted : t < queue[k]
  /\ \A j, k \in 1 .. Len(queue) : j < k => queue[j] < queue[k]

NoTaskTwice ==
  next - 1 = Len(queue) + Cardinality(Running) + Cardinality(finished)
             + Cardinality(dropped) + Cardinality(evicted)

CountersAgree ==
  /\ active = Cardinality(Running)
  /\ completed = Cardinality(finished)

(* Every task main is done with is in exactly one place, and the counters  *)
(* main prints, and drain relies on, agree with it.                        *)
TasksAccounted ==
  /\ EveryTaskSomewhere
  /\ NoTaskTwice
  /\ OldestFirst
  /\ CountersAgree

(* With drop-oldest the newest frame always gets in: nobody else submits,  *)
(* so that the place the eviction made is there for the second submit,     *)
(* whose result is ignored.                                                *)
NewestGetsIn == policy = "drop-oldest" => dropped = {}

(* When drain has returned, no task is queued or running: the answers main *)
(* was to wait for ("blocks until all in-flight tasks complete") are       *)
(* logged.                                                                 *)
DrainIsComplete ==
  main \in {"drained", "joining", "done"} =>
    finished = (1 .. next - 1) \ (dropped \cup evicted)

(* A queued task runs, or is evicted by a newer one, whether main goes on  *)
(* submitting or not.                                                      *)
TasksRun == \A t \in Task : t \in Queued ~> t \in finished \cup evicted

(* drain always returns, the destructor always joins: no wakeup is lost,   *)
(* neither between the last task's bookkeeping and its notification nor    *)
(* between a worker's test and its sleep.                                  *)
PoolShutsDown == main = "drain" ~> main = "done"

=============================================================================
