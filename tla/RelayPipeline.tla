---------------------------- MODULE RelayPipeline ----------------------------
(***************************************************************************)
(* The whole life of a frame's slot when three processes share it:         *)
(*                                                                         *)
(*  - the capture process fills the slot (DmaBufProducer) and pushes the   *)
(*    frame's metadata into the channel's queue_agg, whose own thread      *)
(*    moves it to the channel's pad of msgagg; msgagg publishes one        *)
(*    scene_update for the frames it batches;                              *)
(*  - rule_process handles scene_update messages one at a time.  For each  *)
(*    source that raises an alert it relays a task packet to the consumer; *)
(*    the slots of all other sources it returns in one frame_done message; *)
(*  - the consumer maps the relayed slots and releases them over the       *)
(*    producer's socket.                                                   *)
(*                                                                         *)
(* A slot thus comes back on one of two paths, and the program is right    *)
(* when every slot takes exactly one of them.  It may also be lost on the  *)
(* way: queue_agg is leaky, messages travel over MQTT connections that are *)
(* not opened again once they are lost, and nobody releases the slot of a  *)
(* frame whose metadata was thrown away.                                   *)
(***************************************************************************)
EXTENDS DmaBufConsumer, FiniteSets

CONSTANTS Faults,        \* the faults of the environment a run includes
          MaxSizeBuffers \* max-size-buffers of queue_agg

(* A topic reaches its reader while the program's connections to the       *)
(* broker are up: the subscriber of scene_update in rule_process, and both *)
(* the publisher of frame_done there and its subscriber in the capture     *)
(* process.                                                                *)
Topics == {"scene_update", "frame_done"}

(* A topic is named among the faults when a connection of it may be lost.  *)
ASSUME RelayAssumption ==
  /\ Faults \subseteq {"consumer_exit", "publish_fails", "pipeline_error"} \cup Topics
  /\ MaxSizeBuffers \in Nat \ {0}

VARIABLES queueAgg,     \* per channel, the frames in its queue_agg
          pads,         \* per channel, the frames queued in its msgagg pad
          worker,       \* what msgagg's worker does
          scenes,       \* scene_update messages not yet handled
          scene,        \* the message being handled: source -> slot
          todo,         \* its sources whose rules have not run yet
          vqaSources,   \* its sources relayed to the consumer
          relayFd,      \* rule_process's end of the relay socket
          relay,        \* packets relayed and not yet received
          frameDone,    \* frame_done messages not yet received
          releasing,    \* release_entries not yet applied
          connected,    \* the topics whose connections are up
          lost          \* slots in flight whose last reference was thrown away

ruleVars == <<scene, todo, vqaSources>>
aggVars == <<queueAgg, pads, worker>>
pipeVars == <<aggVars, scenes, ruleVars, relayFd, relay, frameDone, releasing,
              connected, lost>>
vars == <<producerVars, mapped, pipeVars>>

NoScene == [c \in {} |-> NoSlot]

(* A scene_update maps its sources to the slots of their frames. *)
Scene == UNION {[S -> Slot] : S \in SUBSET Channels}

(* Every place a slot passes through holds slots, the sources relayed belong*)
(* to the scene being handled, and none of them is still to be examined.   *)
RelayTypeOK ==
  /\ ProducerTypeOK
  /\ ConsumerTypeOK
  /\ queueAgg \in [Channels -> Seq(Slot)]
  /\ pads \in [Channels -> Seq(Slot)]
  /\ worker \in {"running", "paused", "stopping"}
  /\ scenes \in Seq(Scene \ {NoScene})
  /\ scene \in Scene
  /\ todo \subseteq DOMAIN scene
  /\ vqaSources \subseteq DOMAIN scene \ todo
  /\ relayFd \in {"connecting", "up", "closed"}
  /\ relay \in Seq(Slot)
  /\ frameDone \in Seq(SUBSET Slot)
  /\ releasing \subseteq Slot
  /\ connected \subseteq Topics
  /\ lost \subseteq Slot

(* The three processes are up.  The consumer connects to the producer when *)
(* it has accepted rule_process's connection; main() may still be inside   *)
(* its connectUds.                                                         *)
Init ==
  /\ ProducerInit
  /\ ConsumerInit
  /\ queueAgg = [c \in Channels |-> <<>>]
  /\ pads = [c \in Channels |-> <<>>]
  /\ worker = "running"
  /\ scenes = <<>>
  /\ scene = NoScene
  /\ todo = {}
  /\ vqaSources = {}
  /\ relayFd = "connecting"
  /\ relay = <<>>
  /\ frameDone = <<>>
  /\ releasing = {}
  /\ connected = Topics
  /\ lost = {}

-----------------------------------------------------------------------------
(* The capture process. *)

(* queue_agg is leaky downstream: a buffer that finds it full pushes out   *)
(* the oldest one.  Nobody is told, and no message will ever name the slot *)
(* of the buffer that was dropped.                                         *)
Enqueue(c, i) ==
  \/ /\ Len(queueAgg[c]) < MaxSizeBuffers
     /\ queueAgg' = [queueAgg EXCEPT ![c] = Append(@, i)]
     /\ UNCHANGED lost
  \/ /\ Len(queueAgg[c]) >= MaxSizeBuffers
     /\ queueAgg' = [queueAgg EXCEPT ![c] = Append(Tail(@), i)]
     /\ lost' = lost \cup {Head(queueAgg[c])}

(* gst_pad_push is refused because the pipeline is being stopped; the      *)
(* buffer is freed.                                                        *)
PushRefused(i) ==
  /\ worker = "stopping"
  /\ lost' = lost \cup {i}
  /\ UNCHANGED queueAgg

(* gst_frame_offload_chain once SubmitFrame has returned true: the slot    *)
(* travels downstream with the frame's metadata.  When SubmitFrame returns *)
(* false the frame is dropped, which is Return in the module of the        *)
(* producer.                                                               *)
PushFrame(c) ==
  /\ SubmitSlot(c)
  /\ IF CanSubmit(held[c])
     THEN Enqueue(c, held[c]) \/ PushRefused(held[c])
     ELSE UNCHANGED <<queueAgg, lost>>
  /\ UNCHANGED <<mapped, pads, worker, scenes, ruleVars, relayFd, relay, frameDone,
                 releasing, connected>>

OffloadStep(c) ==
  \/ SubmitFrameStep(c) /\ UNCHANGED <<mapped, pipeVars>>
  \/ PushFrame(c)

(* The thread of queue_agg takes its oldest buffer and calls               *)
(* gst_msg_agg_data_chain with it, which queues it and never waits.        *)
ForwardFrame(c) ==
  /\ queueAgg[c] # <<>>
  /\ pads' = [pads EXCEPT ![c] = Append(@, Head(queueAgg[c]))]
  /\ queueAgg' = [queueAgg EXCEPT ![c] = Tail(@)]
  /\ UNCHANGED <<producerVars, mapped, worker, scenes, ruleVars, relayFd, relay, frameDone,
                 releasing, connected, lost>>

(* One turn of msgagg's worker: it takes the oldest frame of every pad     *)
(* that has one.  How long it waits for the other pads is left open.  The  *)
(* broker has nobody to send the message to once the subscriber is gone.   *)
PublishScene ==
  LET ready == {c \in Channels : pads[c] # <<>>}
      message == [c \in ready |-> Head(pads[c])]
  IN
  /\ worker = "running"
  /\ ready # {}
  /\ pads' = [c \in Channels |-> IF c \in ready THEN Tail(pads[c]) ELSE pads[c]]
  /\ IF "scene_update" \in connected
     THEN scenes' = Append(scenes, message) /\ UNCHANGED lost
     ELSE lost' = lost \cup {message[c] : c \in ready} /\ UNCHANGED scenes
  /\ UNCHANGED <<producerVars, mapped, queueAgg, worker, ruleVars, relayFd, relay,
                 frameDone, releasing, connected>>

(* The videos have ended: end of stream has followed the last frame of     *)
(* every channel to its pad.  The worker pauses its task, and the seek     *)
(* that starts the videos again does not start the worker again.           *)
EndOfStream ==
  /\ worker = "running"
  /\ \A c \in Channels : pc[c] = "idle" /\ queueAgg[c] = <<>> /\ pads[c] = <<>>
  /\ worker' = "paused"
  /\ UNCHANGED <<producerVars, mapped, queueAgg, pads, scenes, ruleVars, relayFd, relay,
                 frameDone, releasing, connected, lost>>

(* An element cannot go on.  The application stops the pipeline on its     *)
(* error message, and the worker with it; the rest of the shutdown is not  *)
(* modelled.                                                               *)
PipelineError ==
  /\ "pipeline_error" \in Faults
  /\ worker # "stopping"
  /\ worker' = "stopping"
  /\ UNCHANGED <<producerVars, mapped, queueAgg, pads, scenes, ruleVars, relayFd, relay,
                 frameDone, releasing, connected, lost>>

(* OnFrameDonePayload, in the MQTT client's thread: the release_entries    *)
(* are applied one by one, each under the pool's mutex.                    *)
OnFrameDone ==
  /\ releasing = {}
  /\ frameDone # <<>>
  /\ releasing' = Head(frameDone)
  /\ frameDone' = Tail(frameDone)
  /\ UNCHANGED <<producerVars, mapped, aggVars, scenes, ruleVars, relayFd, relay, connected, lost>>

ReleaseEntry ==
  \E i \in releasing :
    /\ ReleaseSlotDirect(i)
    /\ releasing' = releasing \ {i}
    /\ UNCHANGED <<pc, held, tasks, releases, peerUp, mapped,
                   aggVars, scenes, ruleVars, relayFd, relay, frameDone, connected, lost>>

-----------------------------------------------------------------------------
(* rule_process.  The MQTT client calls the handler for one message at a   *)
(* time.                                                                   *)

(* main()'s own connectUds returns. *)
RelayConnected ==
  /\ relayFd = "connecting"
  /\ relayFd' = "up"
  /\ UNCHANGED <<producerVars, mapped, aggVars, scenes, ruleVars, relay, frameDone, releasing,
                 connected, lost>>

OnScene ==
  /\ scene = NoScene
  /\ scenes # <<>>
  /\ scene' = Head(scenes)
  /\ todo' = DOMAIN scene'
  /\ scenes' = Tail(scenes)
  /\ UNCHANGED <<producerVars, mapped, aggVars, vqaSources, relayFd, relay, frameDone, releasing,
                 connected, lost>>

(* A source without alert, or with an alert that cannot be relayed: the    *)
(* socket is not connected yet, or it was closed and the consumer, which   *)
(* accepts once, cannot be reached again.                                  *)
NotRelayed(c) ==
  /\ c \in todo
  /\ todo' = todo \ {c}
  /\ UNCHANGED <<producerVars, mapped, aggVars, scenes, scene, vqaSources, relayFd,
                 relay, frameDone, releasing, connected, lost>>

(* Mutant: the relayed source is not remembered. *)
RelaySentUnlisted(c) ==
  /\ c \in todo
  /\ relayFd = "up"
  /\ peerUp
  /\ relay' = Append(relay, scene[c])
  /\ todo' = todo \ {c}
  /\ UNCHANGED <<producerVars, mapped, aggVars, scenes, scene, vqaSources, relayFd,
                 frameDone, releasing, connected, lost>>

RelaySent(c) ==
  /\ c \in todo
  /\ relayFd = "up"
  /\ peerUp
  /\ relay' = Append(relay, scene[c])
  /\ vqaSources' = vqaSources \cup {c}
  /\ todo' = todo \ {c}
  /\ UNCHANGED <<producerVars, mapped, aggVars, scenes, scene, relayFd, frameDone, releasing,
                 connected, lost>>

(* sendAll fails: the source stays out of vqaSources. *)
RelayFailed(c) ==
  /\ c \in todo
  /\ relayFd = "up"
  /\ ~ peerUp
  /\ relayFd' = "closed"
  /\ todo' = todo \ {c}
  /\ UNCHANGED <<producerVars, mapped, aggVars, scenes, scene, vqaSources, relay,
                 frameDone, releasing, connected, lost>>

(* Mutant: release_entries lists the relayed sources too. *)
ReleaseEntriesOfAll == {scene[c] : c \in DOMAIN scene}

(* Mutant: a scene with a relayed source releases nothing. *)
ReleaseEntriesIfNoAlert ==
  IF vqaSources = {} THEN {scene[c] : c \in DOMAIN scene} ELSE {}

(* What release_entries lists when every source has been through the rules. *)
ReleaseEntries == {scene[c] : c \in DOMAIN scene \ vqaSources}

(* Mutant: vqaSources outlives its message. *)
EndSceneKeepsSources ==
  /\ scene # NoScene
  /\ todo = {}
  /\ scene' = NoScene
  /\ UNCHANGED <<producerVars, mapped, aggVars, scenes, todo, vqaSources, relayFd, relay, releasing,
                 connected>>

EndScene ==
  /\ scene # NoScene
  /\ todo = {}
  /\ scene' = NoScene
  /\ vqaSources' = {}
  /\ UNCHANGED <<producerVars, mapped, aggVars, scenes, todo, relayFd, relay, releasing, connected>>

(* A message without entries is sent too; it has no effect and is not kept. *)
PublishFrameDone ==
  /\ EndScene
  /\ "frame_done" \in connected
  /\ frameDone' = IF ReleaseEntries = {} THEN frameDone
                  ELSE Append(frameDone, ReleaseEntries)
  /\ UNCHANGED lost

(* The publish fails, or goes to a broker without a subscriber: a failure  *)
(* is logged, and in both cases the entries are gone.                      *)
PublishFailed ==
  /\ "publish_fails" \in Faults \/ "frame_done" \notin connected
  /\ EndScene
  /\ lost' = lost \cup ReleaseEntries
  /\ UNCHANGED frameDone

RuleStep ==
  \/ OnScene
  \/ \E c \in Channels : NotRelayed(c) \/ RelaySent(c) \/ RelayFailed(c)
  \/ PublishFrameDone
  \/ "frame_done" \notin connected /\ PublishFailed

-----------------------------------------------------------------------------
(* The consumer. *)

(* consumer_demo's loop: a relayed packet is received and its slot mapped. *)
MapRelayed ==
  /\ relay # <<>>
  /\ MapFrame(Head(relay))
  /\ relay' = Tail(relay)
  /\ UNCHANGED <<producerVars, aggVars, scenes, ruleVars, relayFd, frameDone, releasing,
                 connected, lost>>

ReleaseMapped ==
  /\ ReleaseFrame
  /\ UNCHANGED pipeVars

(* It has read its num_frames, is stopped, or dies.  Packets in the relay  *)
(* socket, and a frame it was reading, are nobody's from then on.          *)
ConsumerExit ==
  /\ "consumer_exit" \in Faults
  /\ CloseConsumer
  /\ relay' = <<>>
  /\ lost' = lost \cup {relay[k] : k \in 1 .. Len(relay)} \cup ({mapped} \ {NoSlot})
  /\ UNCHANGED <<aggVars, scenes, ruleVars, relayFd, frameDone, releasing, connected>>

-----------------------------------------------------------------------------
(* The MQTT connections. *)

SlotsOf(message) == {message[c] : c \in DOMAIN message}

(* Of the messages under way those already received are still handled; the *)
(* others are gone: the sessions are clean ones and nobody sends again.    *)
LoseScenes ==
  \E k \in 0 .. Len(scenes) :
    /\ scenes' = SubSeq(scenes, 1, k)
    /\ lost' = lost \cup UNION {SlotsOf(scenes[j]) : j \in k + 1 .. Len(scenes)}
    /\ UNCHANGED frameDone

LoseFrameDones ==
  \E k \in 0 .. Len(frameDone) :
    /\ frameDone' = SubSeq(frameDone, 1, k)
    /\ lost' = lost \cup UNION {frameDone[j] : j \in k + 1 .. Len(frameDone)}
    /\ UNCHANGED scenes

(* onConnectionLost clears a flag; nothing ever connects again.            *)
ConnectionLost ==
  \E topic \in Faults \cap connected :
    /\ connected' = connected \ {topic}
    /\ IF topic = "scene_update" THEN LoseScenes ELSE LoseFrameDones
    /\ UNCHANGED <<producerVars, mapped, aggVars, ruleVars, relayFd, relay, releasing>>

-----------------------------------------------------------------------------

Next ==
  \/ \E c \in Channels : OffloadStep(c)
  \/ \E c \in Channels : ForwardFrame(c)
  \/ PublishScene
  \/ EndOfStream
  \/ PipelineError
  \/ OnFrameDone
  \/ ReleaseEntry
  \/ RelayConnected
  \/ RuleStep
  \/ PublishFailed
  \/ MapRelayed
  \/ ReleaseMapped
  \/ ConsumerExit
  \/ ConnectionLost

(* Every thread is scheduled, and while the first pass of the videos lasts *)
(* frames keep coming on every channel.  After it msgagg's worker is       *)
(* paused, and nothing is assumed of further frames.  No fairness for the  *)
(* faults, and none for the end of the pass, which is as far away as the   *)
(* videos are long.                                                        *)
Fairness ==
  /\ \A c \in Channels :
       /\ WF_vars((worker = "running" \/ pc[c] # "idle") /\ OffloadStep(c))
       /\ WF_vars(ForwardFrame(c))
  /\ WF_vars(PublishScene)
  /\ WF_vars(OnFrameDone)
  /\ WF_vars(ReleaseEntry)
  /\ WF_vars(RelayConnected)
  /\ WF_vars(RuleStep)
  /\ WF_vars(MapRelayed)
  /\ WF_vars(ReleaseMapped)

Spec == Init /\ [][Next]_vars

FairSpec == Spec /\ Fairness

-----------------------------------------------------------------------------
(* Who still refers to a slot, so that it can be released one day.         *)

Holds(q, i) == \E k \in 1 .. Len(q) : q[k] = i

Waiting(i) == \E c \in Channels : Holds(queueAgg[c], i) \/ Holds(pads[c], i)

Named(i) ==
  \/ Waiting(i)
  \/ \E k \in 1 .. Len(scenes) : i \in SlotsOf(scenes[k])
  \/ \E c \in DOMAIN scene \ vqaSources : scene[c] = i
  \/ Holds(relay, i)
  \/ \E k \in 1 .. Len(frameDone) : i \in frameDone[k]
  \/ i \in releasing
  \/ mapped = i
  \/ Holds(releases, i)

(* The references to a slot, each identified by the place that holds it.   *)

At(name, q, i) == {<<name, k>> : k \in {j \in 1 .. Len(q) : q[j] = i}}

References(i) ==
  (UNION {At(<<"queue_agg", c>>, queueAgg[c], i) : c \in Channels})
  \cup (UNION {At(c, pads[c], i) : c \in Channels})
  \cup (UNION {{<<"scene", k, c>> : c \in {d \in DOMAIN scenes[k] : scenes[k][d] = i}}
               : k \in 1 .. Len(scenes)})
  \cup {<<"rule", c>> : c \in {d \in DOMAIN scene \ vqaSources : scene[d] = i}}
  \cup At("relay", relay, i)
  \cup {<<"frame_done", k>> : k \in {j \in 1 .. Len(frameDone) : i \in frameDone[j]}}
  \cup (IF i \in releasing THEN {<<"releasing">>} ELSE {})
  \cup (IF mapped = i THEN {<<"mapped">>} ELSE {})
  \cup At("release", releases, i)

(* Whoever sends a frame into the pipeline counts on somebody naming its   *)
(* slot until it is released: in relay mode the "caller owns slot          *)
(* release" (producer.h:22), and the caller, frame_offload, keeps nothing  *)
(* but the buffer it pushes.  It does not hold: with no fault at all,      *)
(* queue_agg drops a buffer whose slot is in flight.                       *)
EveryFlightIsNamed == \A i \in Slot : slots[i] = "ON_FLIGHT" => Named(i)

(* Conservation: a slot in flight has exactly one reference in the three   *)
(* processes and the queues, sockets and topics between them, unless it    *)
(* was thrown away with a dropped buffer, a message or its reader; a slot  *)
(* that was, or is not in flight, has none.  With two, a slot would be     *)
(* released twice, and the second release would free the next frame put    *)
(* into it; with none it would be leaked where nothing was dropped.        *)
OneReferenceUnlessLost ==
  \A i \in Slot :
    IF slots[i] = "ON_FLIGHT" /\ i \notin lost
    THEN \E r \in References(i) : References(i) = {r}
    ELSE References(i) = {}

(* What the consumer, and the rules that name a slot in an alert, rely on: *)
(* no thread converts a frame into a slot somebody still refers to, and no *)
(* two threads into the same slot.                                         *)
WritersAlone ==
  \A c \in Channels : pc[c] \in Holding =>
    /\ slots[held[c]] = "IN_USE"
    /\ ~ Named(held[c])
    /\ \A d \in Channels \ {c} : pc[d] \in Holding => held[d] # held[c]

(* A release, on either path, finds its slot in flight: the counters       *)
(* PollReleases and ReleaseSlotDirect keep never miss one.                 *)
ReleasesAreDue ==
  /\ \A i \in releasing : CanRelease(i)
  /\ releases # <<>> => CanRelease(Head(releases))

(* The lease of a slot as the parties see it, from who refers to it, or    *)
(* dropped it, and not from the pool's table.                              *)
LeaseView ==
  [i \in Slot |->
    IF \E c \in Channels : pc[c] \in Holding /\ held[c] = i THEN "filling"
    ELSE IF Named(i) \/ i \in lost THEN "lent"
    ELSE "free"]

Lease == INSTANCE FrameLease WITH lease <- LeaseView

(* The pipeline implements the abstract lease: the pool hands out and      *)
(* takes back exactly the slots nobody refers to.                          *)
LeaseSafe == Lease!Spec

(* A slot nobody can be asked to give back: its reference was thrown away, *)
(* or the first pass is over and the slot waits for a worker that has      *)
(* paused itself or for the poll of a frame that may not come, or the      *)
(* pipeline is being stopped.                                              *)
Stranded(i) ==
  \/ i \in lost
  \/ worker = "stopping"
  \/ worker = "paused" /\ (Waiting(i) \/ Holds(releases, i))

(* It keeps the promise that what is lent comes back, too, for every frame *)
(* whose metadata gets through queue_agg and msgagg and is not lost with a *)
(* connection: what is relayed still comes back when rule_process cannot   *)
(* publish any more, and what rule_process holds when the first pass ends  *)
(* comes back after it.                                                    *)
LeaseFair == \A i \in Slot : <>Stranded(i) \/ Lease!ComesBack(i)

(* A capture thread that sends a frame gets past the send. *)
SendsComplete == \A c \in Channels : pc[c] = "send" ~> pc[c] # "send"

=============================================================================
