------------------------------ MODULE Aggregator ------------------------------
(***************************************************************************)
(* The Aggregator (multi_cam_app/aggregator/Aggregator.cpp): the channels' *)
(* appsink callbacks put records into a bounded queue, one consumer thread *)
(* publishes them in batches.  It is lock-free: the bound is kept by the   *)
(* atomic counter current_size_ beside the queue, which is a moodycamel    *)
(* BlockingConcurrentQueue, in order for each producer only.               *)
(*                                                                         *)
(* The records of a channel are numbered as they are accepted, and a       *)
(* record is <<channel, number>>; what the queue hands out next for a      *)
(* channel is then the lowest number in it.                                *)
(***************************************************************************)
EXTENDS Integers, FiniteSets, Sequences, Functions

CONSTANTS Channels,
          QueueCapacity,    \* config_.queue_capacity
          BatchSize,        \* config_.batch_size
          MaxRecords        \* bound: records a channel's callback offers

(* The channels are the entries of a configuration file.                   *)
ASSUME AggregatorAssumption ==
  /\ IsFiniteSet(Channels)
  /\ QueueCapacity \in Nat
  /\ BatchSize \in Nat \ {0}
  /\ MaxRecords \in Nat

VARIABLES connected,    \* channels whose appsink signal is connected
          caller,       \* where a channel's callback is
          calls,        \* callbacks a channel has begun
          accepted,     \* records it has put into the queue
          queue,        \* records in the queue
          size,         \* current_size_
          stop,         \* stop_requested_
          consumer,     \* where ConsumerLoop is
          batch,        \* its local batch
          taken,        \* it has dequeued a record and not yet counted it off
          batches,      \* the arguments of PublishBatch, in order
          app,          \* the thread that runs StopPipeline
          settled       \* accepted, when Stop set stop_requested_

channelVars == <<caller, calls, accepted>>
appVars == <<connected, stop, app, settled>>
consumerVars == <<consumer, batch, taken, batches>>
vars == <<channelVars, queue, size, consumerVars, appVars>>

Record == Channels \X (1 .. MaxRecords)

(* The queue and the batches hold records that were offered, and           *)
(* current_size_, an unsigned counter, never goes below zero.              *)
AggregatorTypeOK ==
  /\ connected \subseteq Channels
  /\ caller \in [Channels -> {"out", "in", "reserved"}]
  /\ calls \in [Channels -> 0 .. MaxRecords]
  /\ accepted \in [Channels -> 0 .. MaxRecords]
  /\ queue \subseteq Record
  /\ size \in Nat
  /\ stop \in BOOLEAN
  /\ consumer \in {"wait", "more", "test", "loop", "drain", "ended"}
  /\ batch \in Seq(Record)
  /\ taken \in BOOLEAN
  /\ batches \in Seq(Seq(Record))
  /\ app \in {"running", "stopping", "stopped"}
  /\ settled \in [Channels -> 0 .. MaxRecords]

(* Start has returned, the workers have their aggregator and the pipeline  *)
(* begins to play.                                                         *)
Init ==
  /\ connected = Channels
  /\ caller = [c \in Channels |-> "out"]
  /\ calls = [c \in Channels |-> 0]
  /\ accepted = [c \in Channels |-> 0]
  /\ queue = {}
  /\ size = 0
  /\ stop = FALSE
  /\ consumer = "loop"
  /\ batch = <<>>
  /\ taken = FALSE
  /\ batches = <<>>
  /\ app = "running"
  /\ settled = [c \in Channels |-> 0]

-----------------------------------------------------------------------------
(* The streaming thread of a channel. *)

(* OnNewCombinedSample: nothing here is shared before TryEnqueue. *)
NewSample(c) ==
  /\ c \in connected
  /\ caller[c] = "out"
  /\ calls[c] < MaxRecords
  /\ calls' = [calls EXCEPT ![c] = @ + 1]
  /\ caller' = [caller EXCEPT ![c] = "in"]
  /\ UNCHANGED <<accepted, queue, size, consumerVars, appVars>>

(* TryEnqueue, when its load (or the exchange that failed) sees the queue  *)
(* full: the record is dropped.                                            *)
Refused(c) ==
  /\ app # "stopped"
  /\ caller[c] = "in"
  /\ size >= QueueCapacity
  /\ caller' = [caller EXCEPT ![c] = "out"]
  /\ UNCHANGED <<calls, accepted, queue, size, consumerVars, appVars>>

(* Mutant: the bound is tested with > *)
ReserveOneMore(c) ==
  /\ app # "stopped"
  /\ caller[c] = "in"
  /\ size <= QueueCapacity
  /\ size' = size + 1
  /\ caller' = [caller EXCEPT ![c] = "reserved"]
  /\ UNCHANGED <<calls, accepted, queue, consumerVars, appVars>>

(* The compare-exchange succeeds on the value that passed the test. *)
Reserve(c) ==
  /\ app # "stopped"
  /\ caller[c] = "in"
  /\ size < QueueCapacity
  /\ size' = size + 1
  /\ caller' = [caller EXCEPT ![c] = "reserved"]
  /\ UNCHANGED <<calls, accepted, queue, consumerVars, appVars>>

(* The enqueue itself, some time later. *)
Enqueue(c) ==
  /\ app # "stopped"
  /\ caller[c] = "reserved"
  /\ caller' = [caller EXCEPT ![c] = "out"]
  /\ accepted' = [accepted EXCEPT ![c] = @ + 1]
  /\ queue' = queue \cup {<<c, accepted'[c]>>}
  /\ UNCHANGED <<calls, size, consumerVars, appVars>>

-----------------------------------------------------------------------------
(* ConsumerLoop. *)

Goto(label) == consumer' = label

(* A record that dequeue may return. *)
IsNext(r) ==
  /\ r \in queue
  /\ \A q \in queue : q[1] = r[1] => q[2] >= r[2]

(* Dequeue and push_back. *)
Take ==
  /\ ~ taken
  /\ taken' = TRUE
  /\ \E r \in queue :
       /\ IsNext(r)
       /\ queue' = queue \ {r}
       /\ batch' = Append(batch, r)
  /\ UNCHANGED <<size, batches, channelVars, appVars>>

(* Mutant: what was counted off before is subtracted again. *)
CountOffBatch ==
  /\ taken
  /\ taken' = FALSE
  /\ size' = size - Len(batch)
  /\ UNCHANGED <<queue, consumer, batch, batches, channelVars, appVars>>

(* current_size_.fetch_sub, before anything else. *)
CountOff ==
  /\ taken
  /\ taken' = FALSE
  /\ size' = size - 1
  /\ UNCHANGED <<queue, consumer, batch, batches, channelVars, appVars>>

(* wait_dequeue_timed finds a record, *)
WaitFinds ==
  /\ consumer = "wait"
  /\ Take
  /\ Goto("more")

(* or its time runs out. *)
WaitTimesOut ==
  /\ consumer = "wait"
  /\ queue = {}
  /\ Goto("test")
  /\ UNCHANGED <<queue, size, batch, taken, batches, channelVars, appVars>>

(* The inner loop: fill the batch with what is there. *)
TakeMore ==
  /\ consumer = "more"
  /\ Len(batch) < BatchSize
  /\ Take
  /\ UNCHANGED consumer

NoMore ==
  /\ consumer = "more"
  /\ ~ taken
  /\ Len(batch) >= BatchSize \/ queue = {}
  /\ Goto("test")
  /\ UNCHANGED <<queue, size, batch, taken, batches, channelVars, appVars>>

(* Mutant: the batch is not cleared and goes out again. *)
PublishBatchUncleared ==
  /\ batches' = Append(batches, batch)
  /\ batch' = batch

(* PublishBatch, and batch.clear() *)
PublishBatch ==
  /\ batches' = Append(batches, batch)
  /\ batch' = <<>>

KeepBatch == UNCHANGED <<batch, batches>>

(* Mutant: a partial batch goes out too. *)
PublishIfAny ==
  /\ consumer = "test"
  /\ IF batch # <<>> THEN PublishBatch ELSE KeepBatch
  /\ Goto("loop")
  /\ UNCHANGED <<queue, size, taken, channelVars, appVars>>

(* Mutant: a batch that is just full waits for one more record. *)
PublishIfOver ==
  /\ consumer = "test"
  /\ IF Len(batch) > BatchSize \/ (stop /\ batch # <<>>)
     THEN PublishBatch
     ELSE KeepBatch
  /\ Goto("loop")
  /\ UNCHANGED <<queue, size, taken, channelVars, appVars>>

(* The batch is published when it is full, or when Stop has been called. *)
PublishIfDue ==
  /\ consumer = "test"
  /\ IF Len(batch) >= BatchSize \/ (stop /\ batch # <<>>)
     THEN PublishBatch
     ELSE KeepBatch
  /\ Goto("loop")
  /\ UNCHANGED <<queue, size, taken, channelVars, appVars>>

(* Mutant: the loop ends without draining the queue. *)
LoopTestNoDrain ==
  /\ consumer = "loop"
  /\ Goto(IF stop THEN "ended" ELSE "wait")
  /\ UNCHANGED <<queue, size, batch, taken, batches, channelVars, appVars>>

(* Mutant: the loop ends only when the queue is empty too. *)
LoopTestBusy ==
  /\ consumer = "loop"
  /\ Goto(IF stop /\ size = 0 /\ batch = <<>> THEN "drain" ELSE "wait")
  /\ UNCHANGED <<queue, size, batch, taken, batches, channelVars, appVars>>

LoopTest ==
  /\ consumer = "loop"
  /\ Goto(IF stop THEN "drain" ELSE "wait")
  /\ UNCHANGED <<queue, size, batch, taken, batches, channelVars, appVars>>

(* After the loop: everything left goes out as one batch. *)
Drain ==
  /\ consumer = "drain"
  /\ Take
  /\ UNCHANGED consumer

DrainEnds ==
  /\ consumer = "drain"
  /\ ~ taken
  /\ queue = {}
  /\ IF batch # <<>> THEN PublishBatch ELSE KeepBatch
  /\ Goto("ended")
  /\ UNCHANGED <<queue, size, taken, channelVars, appVars>>

ConsumerStep ==
  \/ CountOff
  \/ WaitFinds
  \/ WaitTimesOut
  \/ TakeMore
  \/ NoMore
  \/ PublishIfDue
  \/ LoopTest
  \/ Drain
  \/ DrainEnds

-----------------------------------------------------------------------------
(* StopPipeline: the workers are stopped first.  Disconnecting the signal  *)
(* does not wait for a callback that is running.                           *)

Disconnect(c) ==
  /\ c \in connected
  /\ connected' = connected \ {c}
  /\ UNCHANGED <<channelVars, queue, size, consumerVars, stop, app, settled>>

Stop ==
  /\ app = "running"
  /\ connected = {}
  /\ app' = "stopping"
  /\ stop' = TRUE
  /\ settled' = accepted
  /\ UNCHANGED <<channelVars, queue, size, consumerVars, connected>>

(* join() returns, and the aggregator is destroyed. *)
Joined ==
  /\ app = "stopping"
  /\ consumer = "ended"
  /\ app' = "stopped"
  /\ UNCHANGED <<channelVars, queue, size, consumerVars, connected, stop, settled>>

-----------------------------------------------------------------------------

Next ==
  \/ \E c \in Channels :
       NewSample(c) \/ Refused(c) \/ Reserve(c) \/ Enqueue(c) \/ Disconnect(c)
  \/ ConsumerStep
  \/ Stop
  \/ Joined

Spec == Init /\ [][Next]_vars

(* The consumer thread is scheduled, a wait with a timeout returns, and    *)
(* the join that Stop begins goes on.                                      *)
FairSpec ==
  /\ Spec
  /\ WF_vars(ConsumerStep)
  /\ WF_vars(Joined)

-----------------------------------------------------------------------------

Reserved == {c \in Channels : caller[c] = "reserved"}

(* The counter beside the lock-free queue is exact at every step: the      *)
(* records in it, the slots claimed by calls about to enqueue, and the     *)
(* record dequeued but not counted off.  So the queue never exceeds its    *)
(* capacity, however the callbacks race for the last slot.                 *)
CapacityKept ==
  /\ size = Cardinality(queue) + Cardinality(Reserved) + (IF taken THEN 1 ELSE 0)
  /\ size <= QueueCapacity

(* What has been handed to the publisher. *)
Published == UNION {Range(batches[b]) : b \in 1 .. Len(batches)}

(* Two records of one channel that leave in the order they came. *)
InOrder(r, s) == r[1] = s[1] => r[2] < s[2]

(* The batches of a sequence, one after the other. *)
AllInOrder(bs) ==
  \A b, d \in 1 .. Len(bs) : \A i \in 1 .. Len(bs[b]), j \in 1 .. Len(bs[d]) :
    b < d \/ (b = d /\ i < j) => InOrder(bs[b][i], bs[d][j])

(* Batching keeps every channel's records whole and in order: those that   *)
(* left the queue are the first ones accepted, each once, and the queue    *)
(* holds the others.                                                       *)
ChannelOrderKept ==
  /\ AllInOrder(Append(batches, batch))
  /\ \A r \in Published \cup Range(batch), q \in queue : InOrder(r, q)
  /\ \A c \in Channels :
       {r \in Published \cup Range(batch) \cup queue : r[1] = c} = {c} \X (1 .. accepted[c])

(* "Drain remaining items after stop": when Stop returns, everything that  *)
(* was in the queue when it was called has been published.  What a running *)
(* callback enqueues during Stop may be left behind.                       *)
StopDrains ==
  app = "stopped" =>
    \A c \in Channels : {c} \X (1 .. settled[c]) \subseteq Published

(* A batch published while the aggregator runs is full, whatever timeouts  *)
(* and bursts came before it.                                              *)
PartialOnlyOnStop ==
  [][batches' # batches /\ ~ stop => Len(batches'[Len(batches')]) = BatchSize]_vars

(* A full batch does not stay in the queue. *)
BatchIsPublished ==
  \A k \in 1 .. MaxRecords :
    Cardinality(queue) + Len(batch) >= BatchSize /\ Len(batches) = k - 1
      ~> (Len(batches) >= k \/ stop)

(* Stop always returns. *)
StopReturns == app = "stopping" ~> app = "stopped"

=============================================================================
