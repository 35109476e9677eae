# A verification development for IQ9_Develop

The repository is an edge-vision system for a Qualcomm IQ9 board. A *capture
process* (`src/multi_cam_app`) runs one GStreamer pipeline per camera, keeps
frames in a pool of DMA-BUF slots and publishes metadata over MQTT. A *rule
process* (`src/vlm_pipeline/rule_process`) evaluates rules on that metadata. A
*VLM consumer* (`src/vlm_pipeline/dmabuf_consumer`) maps the frames an alert
names and asks a vision-language model about them. The hard part of the system
is the life of a frame's slot across the three processes; this development
models that first, then the two batching stages of the capture process, the
thread pool of the consumer, the way from a camera's frames to an alert, and the
gallery of known faces.

## 1. Inventory

### Components, their state and their operations

| Component | State | Operations | Module |
|---|---|---|---|
| `SlotPool` (`frame_cache/src/slot_pool.cpp`) | table of slots, each IDLE, IN_USE or ON_FLIGHT, under one mutex | AcquireSlot, SubmitSlot, ReleaseSlot, RevertSlot | `SlotPool` |
| `DmaBufProducer` + `IpcSender` (`frame_cache/src/producer.cpp`, `ipc_sender.cpp`) | the pool, a Unix socket to one consumer, `poll_mutex_` | SubmitFrame (called by every channel's thread), PollReleases, ReleaseSlotDirect | `DmaBufProducer` |
| `DmaBufConsumer` + `IpcReceiver` (`dmabuf_consumer/src`) | the mapped buffer, the other end of the socket | RecvFrame, MapFrame, ReleaseFrame, Shutdown | `DmaBufConsumer` |
| the two together, no relay | | | `DirectChannel` |
| `frame_offload` element | none beyond the call | chain: submit the frame, push its metadata or drop it | `RelayPipeline` |
| `queue_agg` (`DetectionInferModule.cpp`) | up to 3 buffers per channel | takes a buffer, dropping its oldest when full; its thread passes them on | `RelayPipeline` |
| `msgagg` element | a queue and an eos flag per pad, a worker task, a condition | chain, event, worker, change_state | `MsgAgg`; in one step in `RelayPipeline` |
| `FrameCacheService` | the MQTT subscription of frame_done | OnFrameDonePayload | `RelayPipeline` |
| `rule_process` main + `EventAdapter` | the scene being handled, `vqaSources`, the relay socket | processScenePayload, relay connect and send, frame_done publish | `RelayPipeline` |
| `consumer_demo` | relay socket, thread pool, drop policy | the frame loop, its end | `RelayPipeline`, `ThreadPool` |
| `ThreadPool` (`vlm/thread_pool.cpp`) | queue, stop_, active_, completed_, two conditions | submit, evict_oldest, drain, destructor, worker loop | `ThreadPool` |
| `Aggregator` (`aggregator/Aggregator.cpp`) | lock-free queue, `current_size_`, `stop_requested_` | TryEnqueue, ConsumerLoop, Stop | `Aggregator` |
| `ChannelWorker` | appsink signal handler, a face cache | OnNewCombinedSample, MatchFacesToPersons, Stop | `Aggregator`, `FaceGallery` |
| `MultiCamApp` | main loop, pipeline state, the gallery | Initialize, SeekPipelineToStart, StopPipeline | `MsgAgg`, `Aggregator`, `FaceGallery` |
| `MqttClient`, `MqttAdapter` | connected or not | Publish, message callback, connection lost | topics of `RelayPipeline` |
| `Deduper` and its element | `last_frame_objects_` | transform_ip, IsInteresting, Reset | `Deduper` |
| `LeftItemRule` | `item_states_`: box, timer, alerted | apply | `LeftItemRule` |
| `AlertManager` (`rule_process/include/core`) | `alert_history_` | processAlerts, cleanupHistory | `AlertManager` |
| `RuleEngine`, `Dispatcher`, the other rules | none | processEvent, dispatch | `SceneAlerts` |
| `FrameOffload` | face cache, last timestamp | ExtractAndSerialize | `FaceGallery`, `SceneAlerts` |
| `FaceGallery` (`utils/FaceGallery.cpp`) | entries, next id, a file, under a lock | Load, Save, Match, Enroll | `FaceGallery` |

`PROJECT.json` lists all components, those not modelled included, with the
reason for each.

### Interactions

```
 camera threads --SubmitFrame--> DmaBufProducer/SlotPool <--release packets-- consumer
      |                                   ^                                       ^
      | metadata                          | ReleaseSlotDirect                     | relayed packets
      v                                   |                                       |
  queue_agg (leaky)                       |                                       |
      v                                   |                                       |
   msgagg --scene_update (MQTT)--> rule_process --frame_done (MQTT)--> FrameCacheService
```

A slot comes back on one of two paths: rule_process lists it in `frame_done`,
or relays it to the consumer, which releases it over the producer's socket.
Until then the slot is named by the metadata alone, which `frame_offload` pushes
into `queue_agg`; that queue's own thread carries it on to msgagg.
`ChannelWorker` callbacks feed `Aggregator`, whose thread publishes batches.
Upstream of `frame_offload` the deduper decides which frames exist for the rest
of the system; downstream the rules of rule_process keep memories of what they
saw, and one `AlertManager` decides for all of them what is an alert. The threads
of all channels share the face gallery: those of frame_offload when msgagg is
enabled, those of the appsink callbacks when it is not.

### What is hard, and what makes each component correct

* Several streaming threads run `SubmitFrame` on one producer without a lock
  around it. *Right when* no two parties ever hold the same slot and the pool's
  table agrees with the parties.
* A slot is returned on exactly one of two paths by two other processes, and is
  named by its index alone. *Right when* each slot in flight has exactly one
  reference anywhere, and every release finds its slot in flight.
* The queue behind `frame_offload` drops a buffer when its thread falls behind.
  *Right when* the slot that the buffer named is released all the same; it is not.
* The consumer may exit, a publish may fail, the relay may not be connected
  yet. *Right when* nothing is overwritten and nothing released twice.
* `msgagg` merges pads with an unbounded and a timed wait, ends of stream and
  state changes. *Right when* nothing is lost, repeated, reordered or overtaken
  by end of stream, and a state change always completes.
* `Aggregator` bounds a lock-free queue by a counter beside it. *Right when*
  the bound holds, a channel's order is kept, and Stop publishes what is left.
* A frame the deduper holds back is seen by nobody. *Right when* what
  rule_process saw last differs from the camera's view by small moves only,
  however many of them there were.
* The left-item timer, the alert history and the deduper each remember something
  else about the same item, and the history is trimmed and shared by sources whose
  clocks are read at different times. *Right when* each absence is reported once, not
  early, and repetitions are a cooldown apart.
* Match and Enroll lock the gallery one after the other, the file may not be
  written, and the program may end at any time. *Right when* an id means one
  person for ever and duplicates stay few.
* An MQTT connection that is lost stays lost. *Right when* the slots whose
  messages were not on it still come back.
* `ThreadPool` signals with two conditions. *Right when* every task is run
  once or dropped by policy, drain waits for all of them, and no wake-up is lost.

The hazards in `PROJECT.json` name each of these at its line, with the
properties that would catch it.

## 2. Modules

| Module | What it models |
|---|---|
| `SlotPool` | the slot table: every method is one atomic update, because it runs under `mutex_` |
| `DmaBufProducer` | EXTENDS `SlotPool`; `SubmitFrame` cut at every lock and system call |
| `DmaBufConsumer` | EXTENDS `DmaBufProducer`; one reader with at most one mapped frame |
| `DirectChannel` | composes both outside relay mode; the properties of slot ownership |
| `DirectChannel_proofs` | theorems about `DirectChannel` |
| `SequenceFacts` | lemmas: what sending and receiving do to the elements of a queue, and to those that are sets; used by five of the proof modules |
| `FrameLease` | abstract: what one slot may go through, free -> filling -> lent -> free |
| `RelayPipeline` | composes producer, consumer, queue_agg, msgagg, rule_process, MQTT topics and relay socket; implements `FrameLease` |
| `RelayPipeline_proofs` | theorems about `RelayPipeline`, the refinement of `FrameLease` among them |
| `MsgAgg` | the msgagg element with its worker, waits and state changes |
| `MsgAgg_proofs` | theorems about `MsgAgg` |
| `Aggregator` | the record aggregator and its callers |
| `Aggregator_proofs` | theorems about `Aggregator` |
| `ThreadPool` | the VLM pool and the main thread that uses it |
| `ThreadPool_proofs` | theorems about `ThreadPool` |
| `Deduper` | which frames pass, and what the deduper remembers (operators) |
| `LeftItemRule` | one rule: its table of items and what it raises (operators) |
| `AlertManager` | cooldown and trimming of the alert history (operators) |
| `SceneAlerts` | EXTENDS the three: from a camera's frames to alerts, with a second source |
| `SceneAlerts_proofs` | theorems about `SceneAlerts` |
| `FaceGallery` | the gallery, its file, the caches and threads that use it |
| `FaceGallery_proofs` | theorems about `FaceGallery` |
| `MC*` | instances for TLC |

### How state and actions correspond to the code

**SlotPool, DmaBufProducer.** `slots` is `slots_[i].state`. `pc[c]` is where
channel `c`'s thread is in `SubmitFrame`: `polling` (it holds `poll_mutex_`),
`acquire`, `writing` (between the two SYNC ioctls), `send`, `submit`; `held[c]`
is the local `slot_idx`. `tasks` and `releases` are the two directions of the
stream socket. The packets hold a slot index and constants, so a packet is the
index. `send()` blocks while `SocketCap` packets are unread; `recv` of
releases is non-blocking. A send to a consumer that has gone fails with an
error rather than killing the process, because the MQTT client library ignores
SIGPIPE for the process; the code itself never sets a disposition or
`MSG_NOSIGNAL`. The release direction is not bounded: at most one release per
slot can be unread, a few hundred bytes.

**DmaBufConsumer.** `mapped` is the frame between `RecvFrame`/`MapFrame` and
`ReleaseFrame`. `CloseConsumer` is Shutdown or the death of the process at any
point. `DmaBufProducer` accepts once, so the consumer never comes back.

**RelayPipeline.** `queueAgg`, `pads`, `scenes`, `relay` and `frameDone` are the
queues between elements and processes; `scene`, `todo`, `vqaSources` are the locals
of the handler of one scene; `releasing` is what `OnFrameDonePayload` has still to
apply. `Enqueue` is what a leaky queue does with a buffer: it takes it, and when it
holds `MaxSizeBuffers` (3 in the code) it drops its oldest. `ForwardFrame` is the
queue's thread, which runs msgagg's chain function. Whether a rule raises an alert
is free (`NotRelayed`, `RelaySent`). `connected` is the set of topics whose
connection still exists: `onConnectionLost` only clears a flag and nothing connects
again, so `ConnectionLost` is final; what is queued on the topic, or published on it
later, is gone. `worker` is msgagg's worker: it pauses itself when the videos have
ended (`EndOfStream`), and the seek that starts them again does not start it
(the finding `msgagg_loop`); after an error message the application stops the
pipeline (`PipelineError`), and a push downstream may be refused (`PushRefused`).
The rest of the shutdown is not modelled, so "stopping" is left with the slots as
they are. `lost` is a history variable: the slots in flight whose last reference was
thrown away. The relay socket is closed by the consumer only. A scene is a function
from sources to slots; the JSON is abstracted.

**MsgAgg.** Each step is the code between two waits or unlocks. `awake` stands
for a signal of `wakeup` since the worker began to wait; a timed wait may also
end at any time (`WorkerTimesOut`), which covers late and early timers. Frames
of a channel are numbered, so `delivered \o batch \o queue` can be compared
with what was sent. The batch mode with placeholders (not used by the
application) is left out.

**Aggregator.** `TryEnqueue` is two steps, the compare-exchange that counts the
record and the enqueue; the consumer's dequeue and `fetch_sub` likewise. The
vendored queue is modelled by its contract: any order between producers, FIFO
for each. `settled` is a history variable: what was accepted when Stop set the
flag. Callbacks that still run after the aggregator is destroyed are not given
a meaning (`app # "stopped"` in their guards).

**ThreadPool.** Condition variables are sets of sleepers with spurious wakeups;
the notification of `drain_cv_` after the unlock is a step of its own.
`finished`, `dropped`, `evicted` are history variables.

**Deduper, LeftItemRule, AlertManager, SceneAlerts.** A frame maps the tracks it
shows to places on a line; boxes with an IoU below the threshold are places
`MinMove` apart, and a person owns an item within `OwnerReach` of it. The
first three modules are state-free: their operators are the functions of the
code, and `SceneAlerts` holds the state (`last`, `items`, `history`). An action
is one frame of the camera on its whole way: held back by the deduper, passed but
dropped behind it (by the leaky queue_fo, by `frame_offload` for lack of a slot, or
with its metadata later), or handled by the rules; or an event of a second
source (`gate`) with a rule that has no memory. `shared` stands for
OpenTrunkFaceRule, whose keys have no source in them. Which persons count as
owners (confidence, and the test for static persons) is free. Timestamps of a
source never go back (`FrameOffload`), those of two sources may, by `MaxSkew`.
Differences of timestamps are taken modulo `Wrap`, as the unsigned subtraction does.
`missed`, `since`, `lastEmit` and `hasty` are history variables.

**FaceGallery.** A person stands for the embeddings that match one another; a
track may show several persons, because objects without a tracking-id all have
track 0. `unknown[th]` is the face thread `th` did not find in the gallery and has
not yet enrolled: the gap between the two locks. `Match` returns any of several
matching ids, since which is best depends on the embedding. `file` is replaced
as a whole (Save writes a temporary file and renames it) or not at all; what
Save returns is not looked at. `Restart` may come between any two steps.
`issued`, `unsaved` and `forgotten` are history variables.

## 3. Runs

| Run | Bounds | What it shows |
|---|---|---|
| `direct_one` | 1 channel, 3 slots, socket of 2 | no slot is leaked while the consumer lives; every frame in flight is reclaimed |
| `direct_many` | 2 channels, 3 slots, socket of 2, symmetry | slots are exclusive and the pool agrees with the holders, with the consumer closing at any point |
| `direct_leak` | 2 channels, 2 slots | **violation**: a release read between another channel's send and its SubmitSlot is lost, and the slot with it |
| `relay_faults` | 2 channels, 2 slots, queue_agg of 1, socket of 1, every fault | one reference per slot in flight unless it was thrown away, every release is due, writers are alone; implements `FrameLease`; every slot whose metadata gets through comes back, whichever rules fire (fairness of `FrameLease`) |
| `relay_leak` | 1 channel, 2 slots, queue_agg of 1, no fault | **violation**: queue_agg drops a buffer and its slot is in flight for ever |
| `relay_wedge` | 1 channel, 3 slots, relay mode off | **violation**: nobody reads the task socket, and send() blocks for ever |
| `msgagg_runs` | 2 pads, 2 frames each, 2 runs, 1 seek | streams intact, end of stream last, data and end of stream pushed, state changes complete |
| `msgagg_loop` | 2 pads, 1 frame, 1 seek | **violation**: after a seek to the start the worker stays paused |
| `aggregator_stop` | 2 channels, capacity 2, batches of 2, 3 records each | counter exact and bounded, order kept, full batches go out, Stop drains and returns |
| `pool_drain` | 2 workers, queue of 2, 5 tasks, both policies | tasks neither lost nor repeated, drain complete, shutdown completes |
| `rules` | 1 person on 3 places, 1 bag, grace and cooldown 2, times to 5, skew 1, history of 2 with a soft limit of 1 | the view is current, each absence is reported once and in time, cooldowns are kept while the history is trimmed |
| `gallery` | 2 threads, 2 persons, 2 tracks, 4 ids, save and load failing, restarts anywhere | an id names one person, a person has at most one entry per thread |

**Why the bounds are enough to be interesting.** Two channels give every
two-thread interleaving of `SubmitFrame`, and the code treats channels alike;
three slots let two be held while a third is read, and let the pool run dry. In
`relay_faults` two slots do, with two channels: both may be in one queue, where one
pushes out the other, or on the two release paths, or held by two threads; the pool
runs dry, and a queue of one buffer is full as soon as it holds one.
Two pads give both kinds of second wait; two frames let one pad run ahead. In
`aggregator_stop` six records compete for two places, so that refusal, reuse of
a place and several batches occur. Five tasks over a queue of two and two
workers fill the queue and leave one to evict. In `rules` times to 5 hold two grace
periods of 2 with the owner's return between them, and a cooldown that ends and
starts again; with two keys a soft limit of 1 makes every second alert trim the
history. Three places of one person are what a drift needs: two moves that do not count
and together do. Larger instances were explored once (two merged bags;
three keys) with the same result; they take too long to keep. In `gallery`
four ids are as many as two threads can give to two persons. Bounds
that are not in the code: `MaxFrames`, `MaxRuns`, `MaxLoops` (MsgAgg), `MaxRecords`
(Aggregator), `MaxTasks` (ThreadPool), `SocketCap` (the kernel's buffer), `MaxTime`
and `MaxSkew` (SceneAlerts), `MaxId` (FaceGallery). `SceneAlertsAssumption` asks for a
cooldown not longer than the grace period, as in `rules_config.json` (0 and
0.1 s; the default of `AlertManagerParams` is 5 s). With a longer one the alert of an earlier absence swallows the
next, and the rule, which believes it has reported, never repeats it.

**Deadlock.** It is checked in the DirectChannel runs, `relay_faults` and `relay_leak`. In `relay_wedge` the blocked send stops the whole system, which is
what the run is to show; the temporal property says it of the code.
`SceneAlerts` ends at `MaxTime`. `FaceGallery` never stops, because it may always
restart. `MsgAgg`, `Aggregator` and `ThreadPool` do stop (the element is in READY for
the last time, the pipeline is stopped, the pool destroyed), so their cfgs turn
it off; `StopCompletes`, `StopReturns` and `PoolShutsDown` show that they do
not stop too early.

**Fairness.** Weak fairness of the threads the operating system schedules, one
condition per thread: frames keep arriving on every channel while msgagg's worker
runs, that is, while the first pass of the videos lasts; the consumer's
loop reads and releases; the MQTT client delivers; GStreamer runs the msgagg
task and timed waits end; the state change thread goes on once begun; a VLM
task ends (its HTTP request has a timeout). There is none for faults (a connection need not be lost), for the end of the
videos, for frames after it in `RelayPipeline`, for
spurious wakeups, for frames arriving in `MsgAgg`, for callers in `Aggregator`,
nor for main submitting tasks or leaving its loop in `ThreadPool`. No strong
fairness is used.

After the first pass the worker is paused for good, and frames that come later are
queued without being published. `LeaseFair` therefore excepts what then waits in
queue_agg, in a pad, or for the poll of a frame (`Stranded`), with the slots in `lost`
and a pipeline that is being stopped. It does not except what rule_process, the relay
socket, the consumer or a frame_done message holds at the end of the pass: that comes
back after it.

## 4. Proofs

Every invariant that a passing run checks is also a theorem, for every value of
the constants that satisfies the ASSUMEs of its module (`NoSlotLeaked` for one
channel, as in its run); so are the three action
properties (the refinement of `FrameLease` counted as one). Each module has one
inductive invariant, `IInv` or a few of them on top of one another, one lemma per
action or group of actions that keeps it, and theorems that cite them. The
invariants were checked by TLC before they were proved.

### DirectChannel

`DirectChannel_proofs` proves, for any non-empty set of channels, any number of
slots that `SlotPool::Init` accepts (`NumSlotsAssumption`: 1 to 32), any
socket capacity (`ProducerAssumption`) and `RelayMode = FALSE`
(`DirectAssumption`):

* `TypeCorrect`: `Spec => []DirectTypeOK`;
* `SlotsAreExclusive`: `Spec => []SlotExclusive`;
* `PoolAgreesAlways`: `Spec => []PoolAgrees`;
* `OneChannelLeaksNothing`: `OneChannel /\ Spec => []NoSlotLeaked`.

The inductive invariant is `IInv = DirectTypeOK /\ SlotExclusive /\ PoolAgrees`.
No part is inductive alone. That the slot `AcquireSlot` hands out is unknown to
everybody (the heart of `SlotExclusive`) needs `PoolAgrees`, which says a slot
somebody knows is never IDLE. That a release packet frees a slot nobody else
knows (`PoolAgrees`) needs `SlotExclusive`, which says the packet was the only
reference. That a release packet cannot free a slot a thread still fills needs
both: the slot is IN_USE, and `ReleaseSlot` accepts ON_FLIGHT only. The steps
that move a packet rest on `AppendElements` and `TailElements`, which say where
the elements of a queue are before and after.

`OneChannelLeaksNothing` needs more. A slot in the window between the send and
SubmitSlot is named by a packet while it is still IN_USE; `SoloInv` adds that a
lent slot is ON_FLIGHT or is the one the only thread is about to submit. With
one channel the thread that polls is the one that submits, so no release is
read inside that window. With two channels it can be, which is the run
`direct_leak`.

### RelayPipeline

`RelayPipeline_proofs` proves, for any set of channels, any number of slots the
pool accepts, both values of `RelayMode` and any `Faults` (`NumSlotsAssumption`,
`ProducerAssumption`, `RelayAssumption`):

* `RelayTypeCorrect`: `Spec => []RelayTypeOK`;
* `ReferencesConserved`: `Spec => []OneReferenceUnlessLost`;
* `WritersAlwaysAlone`: `Spec => []WritersAlone`;
* `ReleasesAlwaysDue`: `Spec => []ReleasesAreDue`;
* `ImplementsLease`: `Spec => LeaseSafe`, the refinement of `FrameLease`;
* `SmallPoolsAreNamed`: with `Faults = {}` and `NumSlots <= MaxSizeBuffers`,
  `Spec => []EveryFlightIsNamed`, the property that `relay_leak` refutes.

`OneReferenceUnlessLost` speaks of the set of all references to a slot, which is
awkward to follow through a step. `Conserved` says the same place by place:
there are ten `Place`s a slot in flight can be (queue_agg, the pads, the scene
messages, the scene being handled, the relay socket, the frame_done messages, the one
being applied, the consumer, its releases, and `lost`), it is in exactly one of them
(`EachLocated`) and there once (`NothingTwice`), and the slots IN_USE are those a
thread fills, one thread each (`HoldersAgree`). All of them but `lost` are references.
A step then moves some slots from one place to another, makes one leave, or makes one
arrive while queue_agg may throw another away, and three lemmas about such steps carry
`EachLocated` over all of them, the faults included. `WritersAlone` and
`ReleasesAreDue` follow from it without more.

What the theorem says of a loss is that it is one of those the model names: a slot
is without a reference only because queue_agg dropped its buffer, a push was refused,
or its message or its reader is gone. `SmallPoolsAreNamed` says when the first of these,
the only one without a fault, cannot happen. It counts: a full queue_agg would hold
`MaxSizeBuffers` different slots (`QueueOnce`), and none of them is the one that is
being pushed, which is still IN_USE. The program's default is 8 slots and 3 buffers.

For the refinement, under the invariant the mapped `lease` is the pool's
table with other names (`LeaseIsTable`): being in flight is being referred to. A step
changes at most one slot of the table along free, filling, lent, free
(`StepMovesOneSlot`) and is that step of `FrameLease`; one that only hands
a reference on is a stutter.

### MsgAgg

`MsgAgg_proofs` proves, for any non-empty set of pads, any number of frames, runs
and seeks (`MsgAggAssumption`):

* `MsgAggTypeCorrect`: `Spec => []MsgAggTypeOK`;
* `StreamsStayIntact`: `Spec => []StreamsIntact`;
* `EosAlwaysLast`: `Spec => []EosComesLast`;
* `StaleEosOnlyWhenPaused`: `Spec => [](worker # "paused" => eos = padEos)`.

`StreamsIntact` is about a concatenation; `Whole` and its lemmas say that it keeps its value
when a frame moves from the queue into the batch and from the batch downstream. It
needs `BatchAgrees` (the worker holds a batch on its way to the push only) and
`RunAgrees` (a restarted element has forgotten its last run). `EosComesLast` needs
`EosAgrees`: the worker decides to push end of stream when all pads have ended
and are empty, and they stay so, because the flag it looks at is GStreamer's as long as
it is not paused. That is the last theorem, and the reason why the finding
`msgagg_loop` costs liveness but no data.

### Aggregator

`Aggregator_proofs` proves, for any finite set of channels, any capacity, any
batch size above 0 and any number of records (`AggregatorAssumption`):

* `AggregatorTypeCorrect`: `Spec => []AggregatorTypeOK`;
* `CapacityAlwaysKept`: `Spec => []CapacityKept`;
* `ChannelOrderAlwaysKept`: `Spec => []ChannelOrderKept`;
* `StopAlwaysDrains`: `Spec => []StopDrains`;
* `OnlyFullBatches`: `Spec => PartialOnlyOnStop`.

The channels are finitely many since the counter counts their reservations; the
configuration lists them. `ChannelOrderKept` is stated by the positions of the records in
the batches, not by a flattened sequence, because what a recursive
definition computes cannot be proved here. `StopDrains` says nothing before Stop
returns; `StopAgrees` adds what the consumer has seen to when it ends: no record
accepted before the flag was set is left in the queue, which is so because it ends
only when it finds the queue empty after it has seen the flag. `ConsumerAgrees` bounds
the batch at each place of the loops, and gives the action property.

### ThreadPool

`ThreadPool_proofs` proves, for any non-empty finite set of workers, any queue
bound above 0 and any number of tasks (`ThreadPoolAssumption`; the hazard of a
pool of no workers is listed in `PROJECT.json`):

* `PoolTypeCorrect`: `Spec => []ThreadPoolTypeOK`;
* `AllTasksAccounted`: `Spec => []TasksAccounted`;
* `NewestAlwaysGetsIn`: `Spec => []NewestGetsIn`;
* `DrainWaitsForAll`: `Spec => []DrainIsComplete`.

`TasksAccounted` needs to know that two workers never run the same task and that a
dropped one never starts (`RunningTasksDiffer`, `LostTasksStayLost`). `NewestGetsIn`
needs `MainAgrees`: between the eviction and the second submit there is room,
since only main submits and the workers only take. `DrainIsComplete` follows: an empty queue
and `active` of 0 leave no task but the finished, dropped and evicted ones.

### FaceGallery

`FaceGallery_proofs` proves, for any finite set of threads, any persons, tracks
and number of ids, with and without the faults (`FaceGalleryAssumption`):

* `GalleryTypeCorrect`: `Spec => []FaceGalleryTypeOK`;
* `IdsNameOnePerson`: `Spec => []OneIdOnePerson`;
* `DuplicatesAreBounded`: `Spec => []DuplicatesBounded`.

`OneIdOnePerson` is not inductive: nothing in it says that `nextId` is new.
`IdInv` adds that the ids given out are below it while the gallery is loaded
(`IssuedBelowNext`), that they are below the file's too, but for those not saved
since (`IssuedBelowFile`, what a restart goes on from), and that a thread enrols
only while the gallery is loaded. `DuplicatesBounded` alone says nothing about threads
that have looked a person up in vain and have still to enrol it. `FewDuplicates`
counts them with the entries: `Match` adds a thread only while there is no entry at all,
`Enroll` turns a thread into an entry, and so the sum never exceeds the number of
threads. The same bound on the file carries it over restarts.

### SceneAlerts

`SceneAlerts_proofs` proves, for any persons, bags, places and keys, any grace
period, any cooldown not longer than it, and any limits of the history
(`SceneAlertsAssumption` and the assumptions of the three modules it extends;
tracks and keys are finitely many):

* `ViewStaysCurrent`: `Spec => []ViewIsCurrent`;
* `LeftItemsAreReported`: `Spec => []LeftItemReported`;
* `AlarmsComeDue`: `Spec => AlarmsAreDue`;
* `CooldownsAreKept`: `Spec => []CooldownKept`;
* `SceneAlertsTypeCorrect`: `Spec => []SceneAlertsTypeOK`.

For the first, `Remembers` says what the deduper compares with: what rule_process has
seen, or nothing since an empty frame, unless a frame was lost in between.
The next two rest on `AlertInv`, which ties three memories of one item together:
the rule's timer and flag, the alert history, and the emissions so far. An item flagged as
alerted has been emitted for this absence; one that is not was last emitted before its
timer started, so that its cooldown, which is no longer than the grace period, is over when
it is due (`OldAlertsGoOut`, where the unsigned difference is shown to be the
true one). What trimming does to the history is irrelevant beyond one fact
(`CleanedUpKeeps`): it forgets keys and changes no time. That no other rule emits an item's
key, and that keys are disjoint, comes from `SceneAlertsAssumption`.

`CooldownKept` excuses a repetition within the cooldown only by what is true now:
the cooldown is over by the newest timestamp, or more keys than a limit were emitted around
the time of the first alert. Its invariant, `HistoryInv`, says why a key that
was emitted is not in the history (`ForgottenForAReason`): it expired, or it was evicted
from a crowd. The expiry runs before the eviction, so what is evicted from was emitted recently, and
these keys are the crowd. This is not inductive yet: an event without alerts has no
time, so nothing expires, and a history over a limit is trimmed as it is. A
trimming by percentage may leave more than the limit, so that such a history can be over a limit;
`CrowdIsRecent` says it is then the remains of a recent crowd. Later emissions only
add to a crowd (`AroundGrows`), because a stamp is at most `MaxSkew` behind the newest.
The cardinalities are compared by FiniteSetTheorems. The type invariant needs the
least and the greatest place of the bags in a frame (the merged bag's hull);
`HasLeast` and `HasGreatest` prove that they exist.

### What is only model-checked

Liveness (`SlotsReclaimed`, `LeaseFair`, `FirstPassIsPushed`, `EosArrives`,
`StopCompletes`, `BatchIsPublished`, `StopReturns`, `TasksRun`,
`PoolShutsDown`): it rests on fairness and ENABLED, which the prover does not
handle. The four violations are counterexamples of TLC's.

## 5. Disagreements with the code's own documents

1. **A release can be lost** (`direct_leak`). `SubmitFrame` sends the task
   packet before `SubmitSlot` marks the slot ON_FLIGHT. A quick consumer and a
   second channel that polls in between lose the slot for good. One channel is
   safe (proved), and so is relay mode, where the packet is not sent from here
   and the metadata leaves after SubmitSlot (`ReleasesAreDue`).
2. **A dropped buffer takes its slot with it** (`relay_leak`). In relay mode the
   caller of SubmitFrame owns the release of the slot, and the caller has nothing but
   a buffer, which goes into a queue that drops its oldest when it is full
   (`DetectionInferModule.cpp:656`). The queue fills when its thread gets three frames
   behind; msgagg's chain function never waits, so that takes a loaded machine. Each
   drop shrinks the pool by one slot.
3. **The demonstration's configuration blocks** (`relay_wedge`). The end-to-end
   script runs with `relay_mode` false and a consumer that reads only its relay
   socket.
4. **A looped video falls silent** (`msgagg_loop`). The msgagg worker pauses
   itself at end of stream; a flushing seek does not start it again.

Seen while reading, without a run:

* `Deduper.hpp` lists as rule 3 that a frame in which an object of the last one
  is missing is interesting, and its unit test relies on it. The element never asks
  when no object is left: it resets the deduper and drops the frame
  (`gstdeduper.cpp:285`), so rule_process is never told that the last object has
  gone. `FrameDeduped` models what the element does, and `ViewIsCurrent` excepts
  frames without tracks.
* `test_aggregator.cpp:281` expects one batch when the aggregator is stopped with
  less than a batch queued. `ConsumerLoop` publishes the batch it holds and then what
  it drains, so Stop between two takes gives two. Nothing is lost (`StopDrains`).
* `vlm_http_server.py:200` holds `GENIE_LOCK` while it calls `call_genie`, which
  takes it again (line 142): the first request never returns. Its `/health` answer
  uses a name that is not defined there (line 229).
* `gst_frame_offload_chain` writes the scene JSONL line in two places
  (`gstframeoffload.cpp`, around line 370).

## 6. What is not modelled

Neural networks, OpenCL and the QNN deployment (`src/qwen3vit`, `src/qwen3vl`,
`src/qwen3_vl`): numeric code and vendored SDKs, which make up most of the
repository's lines (headers of the QNN SDK, stb, generated tables, the concurrent
queue, and duplicates of the same inference wrappers). Two servers among them,
`veg_server_combined.cpp` and `vlm_http_server.py`, handle one request after the
other and keep no state between them. Configuration, logging,
statistics and JSON: their results appear as parameters or not at all. The
vendored concurrent queue and the MQTT library: by contract. Set-up of the
producer and consumer: it is the initial state. Shutdown of the capture
process beyond the refused push (the slots are unmapped with it), the framing of the relay socket (a length word out of range, a packet
with a bad magic, which take a corrupted stream or metadata of 64 KiB) and the
duplication of messages by the broker, which nothing in the code could detect. Of
the rules, the geometry (IoU, expanded boxes) is reduced to distances, and the
test for static persons and the face cache of OpenTrunkFaceRule to free choices.
The parts of each component that are left out are named in its note in
`PROJECT.json`.

## 7. Plan

Done: the slot pool, the direct channel; the relay pipeline with failing publishes, a
consumer that exits and lost connections, and its refinement; msgagg; aggregator;
thread pool; deduper, rules and alert manager; the gallery; the proofs of every
safety property of these.

Next, in order:

1. **consumer_demo's framing**: its loop over a stream with metadata of any length.
2. **Shutdown of the capture process**: FrameCacheService, its subscriber and the
   producer, which a callback may still be using.
3. **Proofs**: the direct channel as a second implementation of `FrameLease`, as far
   as no slot is leaked; a version of `LeftItemReported` for cooldowns longer than the
   grace period.
