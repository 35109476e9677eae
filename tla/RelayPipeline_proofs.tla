------------------------ MODULE RelayPipeline_proofs ------------------------
(***************************************************************************)
(* Proofs about RelayPipeline, for any set of channels, any number of      *)
(* slots the pool accepts, with and without relay mode and whatever the    *)
(* faults.                                                                 *)
(***************************************************************************)
EXTENDS RelayPipeline, SequenceFacts, SequenceTheorems, FiniteSetTheorems, TLAPS

-----------------------------------------------------------------------------
(* References counts the references to a slot one by one; what a step does *)
(* to them is easier to say place by place: in which of them a slot is,    *)

Place == {"queue", "pads", "scenes", "rule", "relay", "frame_done", "releasing", "mapped", "releases", "lost"}

(* Queues of slots, one per channel. *)
Somewhere(queues, i) == \E c \in Channels : InSeq(queues[c], i)

InQueue(i) == Somewhere(queueAgg, i)

InPads(i) == Somewhere(pads, i)

(* The slots that each message of a queue names. *)
SlotSets(messages) == [k \in 1 .. Len(messages) |-> SlotsOf(messages[k])]

InScenes(i) == InSets(SlotSets(scenes), i)

InRule(i) == \E c \in DOMAIN scene \ vqaSources : scene[c] = i

IsAt(p, i) ==
  \/ p = "queue" /\ InQueue(i)
  \/ p = "pads" /\ InPads(i)
  \/ p = "scenes" /\ InScenes(i)
  \/ p = "rule" /\ InRule(i)
  \/ p = "relay" /\ InSeq(relay, i)
  \/ p = "frame_done" /\ InSets(frameDone, i)
  \/ p = "releasing" /\ i \in releasing
  \/ p = "mapped" /\ mapped = i
  \/ p = "releases" /\ InSeq(releases, i)
  \/ p = "lost" /\ i \in lost

OnlyAt(p, i) == \A q \in Place : IsAt(q, i) <=> q = p

Nowhere(i) == \A q \in Place : ~ IsAt(q, i)

(* a slot in flight is in one place, any other in none, *)
Located(i) ==
  IF slots[i] = "ON_FLIGHT" THEN \E p \in Place : OnlyAt(p, i) ELSE Nowhere(i)

(* and that it is there once. *)

OnceAmong(queues) ==
  /\ \A c \in Channels : \A i \in Slot : OnceIn(queues[c], i)
  /\ \A c, d \in Channels : \A i \in Slot : InSeq(queues[c], i) /\ InSeq(queues[d], i) => c = d

QueueOnce == OnceAmong(queueAgg)

PadsOnce == OnceAmong(pads)

OneSourceEach(message) == \A c, d \in DOMAIN message : message[c] = message[d] => c = d

ScenesOnce ==
  /\ \A i \in Slot : OnceInSets(SlotSets(scenes), i)
  /\ \A k \in 1 .. Len(scenes) : OneSourceEach(scenes[k])

RuleOnce == OneSourceEach(scene)

RelayOnce == \A i \in Slot : OnceIn(relay, i)

FrameDoneOnce == \A i \in Slot : OnceInSets(frameDone, i)

ReleasesOnce == \A i \in Slot : OnceIn(releases, i)

NothingTwice ==
  QueueOnce /\ PadsOnce /\ ScenesOnce /\ RuleOnce /\ RelayOnce /\ FrameDoneOnce /\ ReleasesOnce

(* The pool's IN_USE slots are those a thread fills, each by one thread. *)
HoldersAgree ==
  /\ \A c \in Channels : pc[c] \in Holding => slots[held[c]] = "IN_USE"
  /\ \A c, d \in Channels : pc[c] \in Holding /\ pc[d] \in Holding /\ held[c] = held[d] => c = d
  /\ \A i \in Slot : slots[i] = "IN_USE" => \E c \in Channels : pc[c] \in Holding /\ held[c] = i

EachLocated == \A i \in Slot : Located(i)

Conserved == HoldersAgree /\ EachLocated /\ NothingTwice

IInv == RelayTypeOK /\ Conserved

-----------------------------------------------------------------------------
(* Slots, and messages that name a slot per source. *)

LEMMA SlotFacts == Slot \subseteq Int /\ NoSlot \notin Slot
  BY NumSlotsAssumption, SMT DEF Slot, NoSlot, kMaxSlots

LEMMA SceneFacts ==
  ASSUME NEW message \in Scene
  PROVE  /\ DOMAIN message \subseteq Channels
         /\ \A c \in DOMAIN message : message[c] \in Slot
         /\ SlotsOf(message) \subseteq Slot
<1>1. PICK S \in SUBSET Channels : message \in [S -> Slot]
  BY DEF Scene
<1> QED  BY <1>1 DEF SlotsOf

LEMMA SceneMade ==
  ASSUME NEW S \in SUBSET Channels, NEW message \in [S -> Slot]
  PROVE  /\ message \in Scene
         /\ S # {} => message # NoScene
<1>1. DOMAIN message = S /\ DOMAIN NoScene = {}
  BY DEF NoScene
<1> QED  BY <1>1 DEF Scene

LEMMA NoSceneFacts == NoScene \in Scene /\ DOMAIN NoScene = {}
<1>1. NoScene \in [{} -> Slot]
  BY DEF NoScene
<1> QED  BY <1>1 DEF Scene

(* The messages that are queued, and what the queue names. *)
Message == Scene \ {NoScene}

LEMMA SlotSetsElements ==
  ASSUME NEW q \in Seq(Message)
  PROVE  /\ SlotSets(q) \in Seq(SUBSET Slot)
         /\ Len(SlotSets(q)) = Len(q)
         /\ \A k \in 1 .. Len(q) : SlotSets(q)[k] = SlotsOf(q[k])
<1>1. Len(q) \in Nat /\ \A k \in 1 .. Len(q) : q[k] \in Message
  OBVIOUS
<1>2. \A k \in 1 .. Len(q) : SlotsOf(q[k]) \in SUBSET Slot
  BY <1>1, SceneFacts DEF Message
<1> QED  BY <1>1, <1>2 DEF SlotSets

LEMMA SlotSetsSame ==
  ASSUME NEW q \in Seq(Message), NEW t \in Seq(SUBSET Slot), Len(t) = Len(q),
         \A k \in 1 .. Len(q) : t[k] = SlotsOf(q[k])
  PROVE  SlotSets(q) = t
<1> DEFINE s == SlotSets(q)
<1>1. s \in Seq(SUBSET Slot) /\ Len(s) = Len(q) /\ \A k \in 1 .. Len(q) : s[k] = SlotsOf(q[k])
  BY SlotSetsElements
<1> HIDE DEF s
<1>2. s = t
  BY <1>1, SeqEqual
<1> QED  BY <1>2 DEF s

LEMMA SlotSetsAppend ==
  ASSUME NEW q \in Seq(Message), NEW m \in Message
  PROVE  /\ SlotsOf(m) \in SUBSET Slot
         /\ SlotSets(Append(q, m)) = Append(SlotSets(q), SlotsOf(m))
<1> DEFINE s == SlotSets(q)
           t == Append(s, SlotsOf(m))
           r == Append(q, m)
<1>1. SlotsOf(m) \in SUBSET Slot
  BY SceneFacts DEF Message
<1>2. s \in Seq(SUBSET Slot) /\ Len(s) = Len(q) /\ \A k \in 1 .. Len(q) : s[k] = SlotsOf(q[k])
  BY SlotSetsElements
<1> HIDE DEF s
<1>3. /\ t \in Seq(SUBSET Slot) /\ Len(t) = Len(q) + 1
      /\ \A k \in 1 .. Len(q) : t[k] = SlotsOf(q[k])
      /\ t[Len(q) + 1] = SlotsOf(m)
  BY <1>1, <1>2, AppendElements
<1>4. /\ r \in Seq(Message) /\ Len(q) \in Nat /\ Len(r) = Len(q) + 1
      /\ \A k \in 1 .. Len(q) : r[k] = q[k]
      /\ r[Len(q) + 1] = m
  BY AppendElements
<1> HIDE DEF r, t
<1>5. \A k \in 1 .. Len(r) : k \in 1 .. Len(q) \/ k = Len(q) + 1
  BY <1>4
<1>6. SlotSets(r) = t
  <2>1. \A k \in 1 .. Len(r) : t[k] = SlotsOf(r[k])
    BY <1>3, <1>4, <1>5
  <2> QED  BY <2>1, <1>3, <1>4, SlotSetsSame
<1> QED  BY <1>1, <1>6 DEF r, s, t

LEMMA SlotSetsTail ==
  ASSUME NEW q \in Seq(Message), q # <<>>
  PROVE  /\ SlotSets(q) # <<>>
         /\ Head(SlotSets(q)) = SlotsOf(Head(q))
         /\ SlotSets(Tail(q)) = Tail(SlotSets(q))
<1> DEFINE s == SlotSets(q)
           t == Tail(s)
           r == Tail(q)
<1>1. s \in Seq(SUBSET Slot) /\ Len(s) = Len(q) /\ \A k \in 1 .. Len(q) : s[k] = SlotsOf(q[k])
  BY SlotSetsElements
<1>2. /\ Len(q) \in Nat \ {0} /\ Head(q) = q[1]
      /\ r \in Seq(Message) /\ Len(r) = Len(q) - 1
      /\ \A k \in 1 .. Len(q) - 1 : r[k] = q[k + 1]
  BY TailElements
<1> HIDE DEF s
<1>3. s # <<>>
  BY <1>1, <1>2
<1>4. /\ Head(s) = s[1] /\ t \in Seq(SUBSET Slot) /\ Len(t) = Len(q) - 1
      /\ \A k \in 1 .. Len(q) - 1 : t[k] = s[k + 1]
  BY <1>1, <1>3, TailElements
<1> HIDE DEF r, t
<1>5. \A k \in 1 .. Len(q) - 1 : k + 1 \in 1 .. Len(q)
  BY <1>2
<1>6. SlotSets(r) = t
  BY <1>1, <1>2, <1>4, <1>5, SlotSetsSame
<1>7. 1 \in 1 .. Len(q)
  BY <1>2
<1> QED  BY <1>1, <1>2, <1>3, <1>4, <1>6, <1>7 DEF r, s, t

LEMMA SlotSetsPrefix ==
  ASSUME NEW q \in Seq(Message), NEW n \in 0 .. Len(q)
  PROVE  /\ SubSeq(q, 1, n) \in Seq(Message)
         /\ Len(SubSeq(q, 1, n)) = n
         /\ \A k \in 1 .. n : SubSeq(q, 1, n)[k] = q[k]
         /\ SlotSets(SubSeq(q, 1, n)) = SubSeq(SlotSets(q), 1, n)
<1> DEFINE s == SlotSets(q)
           t == SubSeq(s, 1, n)
           r == SubSeq(q, 1, n)
<1>1. s \in Seq(SUBSET Slot) /\ Len(s) = Len(q) /\ \A k \in 1 .. Len(q) : s[k] = SlotsOf(q[k])
  BY SlotSetsElements
<1>2. Len(q) \in Nat /\ n \in Nat /\ n <= Len(q) /\ \A k \in 1 .. n : k \in 1 .. Len(q)
  OBVIOUS
<1>3. r \in Seq(Message) /\ Len(r) = n /\ \A k \in 1 .. n : r[k] = q[k]
  BY <1>2
<1> HIDE DEF s
<1>4. t \in Seq(SUBSET Slot) /\ Len(t) = n /\ \A k \in 1 .. n : t[k] = s[k]
  BY <1>1, <1>2
<1> HIDE DEF r, t
<1>5. SlotSets(r) = t
  BY <1>1, <1>2, <1>3, <1>4, SlotSetsSame
<1> QED  BY <1>3, <1>5 DEF r, s, t

-----------------------------------------------------------------------------
(* A queue per channel, when one of them gets or loses a slot. *)

LEMMA SomewhereAppend ==
  ASSUME NEW f \in [Channels -> Seq(Slot)], NEW c \in Channels, NEW h \in Slot,
         OnceAmong(f), ~ Somewhere(f, h)
  PROVE  /\ [f EXCEPT ![c] = Append(@, h)] \in [Channels -> Seq(Slot)]
         /\ OnceAmong([f EXCEPT ![c] = Append(@, h)])
         /\ \A i \in Slot : Somewhere([f EXCEPT ![c] = Append(@, h)], i) <=> Somewhere(f, i) \/ i = h
<1> DEFINE g == [f EXCEPT ![c] = Append(@, h)]
<1>1. /\ f[c] \in Seq(Slot) /\ g[c] = Append(f[c], h)
      /\ \A d \in Channels \ {c} : g[d] = f[d]
  OBVIOUS
<1>2. g \in [Channels -> Seq(Slot)]
  BY <1>1, AppendElements
<1> HIDE DEF g
<1>3. ASSUME NEW i \in Slot
      PROVE  /\ \A d \in Channels : InSeq(g[d], i) <=> InSeq(f[d], i) \/ (d = c /\ i = h)
             /\ \A d \in Channels : OnceIn(g[d], i)
  <2>1. /\ InSeq(g[c], i) <=> InSeq(f[c], i) \/ i = h
        /\ OnceIn(f[c], i) /\ ~ (i = h /\ InSeq(f[c], i)) => OnceIn(g[c], i)
    BY <1>1, InAppend
  <2>2. ~ (i = h /\ InSeq(f[c], i))
    BY DEF Somewhere
  <2> QED  BY <2>1, <2>2, <1>1 DEF OnceAmong
<1>4. \A d \in Channels : ~ InSeq(f[d], h)
  BY DEF Somewhere
<1>5. OnceAmong(g)
  BY <1>3, <1>4 DEF OnceAmong
<1>6. \A i \in Slot : Somewhere(g, i) <=> Somewhere(f, i) \/ i = h
  BY <1>3 DEF Somewhere
<1> QED  BY <1>2, <1>5, <1>6 DEF g

LEMMA SomewhereTail ==
  ASSUME NEW f \in [Channels -> Seq(Slot)], NEW c \in Channels, f[c] # <<>>,
         OnceAmong(f)
  PROVE  /\ [f EXCEPT ![c] = Tail(@)] \in [Channels -> Seq(Slot)]
         /\ OnceAmong([f EXCEPT ![c] = Tail(@)])
         /\ Head(f[c]) \in Slot
         /\ Somewhere(f, Head(f[c]))
         /\ \A i \in Slot : Somewhere([f EXCEPT ![c] = Tail(@)], i) <=> Somewhere(f, i) /\ i # Head(f[c])
<1> DEFINE h == Head(f[c])
           g == [f EXCEPT ![c] = Tail(@)]
<1>1. /\ f[c] \in Seq(Slot) /\ g[c] = Tail(f[c])
      /\ \A d \in Channels \ {c} : g[d] = f[d]
  OBVIOUS
<1>2. g \in [Channels -> Seq(Slot)] /\ h \in Slot
  BY <1>1, TailElements
<1> HIDE DEF g
<1>3. InSeq(f[c], h)
  <2>1. OnceIn(f[c], h)
    BY <1>2 DEF OnceAmong
  <2> QED  BY <2>1, <1>1, InTail
<1>4. ASSUME NEW i \in Slot
      PROVE  /\ \A d \in Channels : InSeq(g[d], i) <=> InSeq(f[d], i) /\ ~ (d = c /\ i = h)
             /\ \A d \in Channels : OnceIn(g[d], i)
  <2>1. OnceIn(f[c], i)
    BY DEF OnceAmong
  <2>2. (InSeq(g[c], i) <=> InSeq(f[c], i) /\ i # h) /\ OnceIn(g[c], i)
    BY <2>1, <1>1, InTail
  <2> QED  BY <2>2, <1>1 DEF OnceAmong
<1>5. OnceAmong(g)
  BY <1>4 DEF OnceAmong
<1>6. \A d \in Channels : InSeq(f[d], h) => d = c
  BY <1>2, <1>3 DEF OnceAmong
<1> HIDE DEF h
<1>7. \A i \in Slot : Somewhere(g, i) <=> Somewhere(f, i) /\ i # h
  BY <1>4, <1>6 DEF Somewhere
<1>8. Somewhere(f, h)
  BY <1>3 DEF Somewhere
<1> QED  BY <1>2, <1>5, <1>7, <1>8 DEF g, h

(* The same two when they follow each other: what a full queue_agg does. *)
LEMMA SomewhereShift ==
  ASSUME NEW f \in [Channels -> Seq(Slot)], NEW c \in Channels, f[c] # <<>>, NEW h \in Slot,
         OnceAmong(f), ~ Somewhere(f, h)
  PROVE  /\ [f EXCEPT ![c] = Append(Tail(@), h)] \in [Channels -> Seq(Slot)]
         /\ OnceAmong([f EXCEPT ![c] = Append(Tail(@), h)])
         /\ Head(f[c]) \in Slot
         /\ Somewhere(f, Head(f[c]))
         /\ \A i \in Slot : Somewhere([f EXCEPT ![c] = Append(Tail(@), h)], i)
                              <=> (Somewhere(f, i) /\ i # Head(f[c])) \/ i = h
<1> DEFINE e == [f EXCEPT ![c] = Tail(@)]
           g == [f EXCEPT ![c] = Append(Tail(@), h)]
<1>1. /\ e \in [Channels -> Seq(Slot)]
      /\ OnceAmong(e)
      /\ Head(f[c]) \in Slot
      /\ Somewhere(f, Head(f[c]))
      /\ \A i \in Slot : Somewhere(e, i) <=> Somewhere(f, i) /\ i # Head(f[c])
  BY SomewhereTail
<1>2. g = [e EXCEPT ![c] = Append(@, h)]
  OBVIOUS
<1> HIDE DEF e, g
<1>3. ~ Somewhere(e, h)
  BY <1>1
<1>4. /\ g \in [Channels -> Seq(Slot)]
      /\ OnceAmong(g)
      /\ \A i \in Slot : Somewhere(g, i) <=> Somewhere(e, i) \/ i = h
  BY <1>1, <1>2, <1>3, SomewhereAppend
<1> QED  BY <1>1, <1>4 DEF g

-----------------------------------------------------------------------------
(* The steps of a SubmitFrame call keep the producer's variables in type.  *)
LEMMA SubmitFrameType ==
  ASSUME ProducerTypeOK, NEW c \in Channels, SubmitFrameStep(c) \/ SubmitSlot(c)
  PROVE  ProducerTypeOK'
<1> USE DEF ProducerTypeOK, SlotPoolTypeOK, Goto, Return, Holding
<1>1. CASE StartSubmit(c) \/ PollDone(c) \/ NoFreeSlot(c) \/ Written(c)
  BY <1>1 DEF StartSubmit, PollDone, NoFreeSlot, Written
<1>2. CASE PollOneRelease(c)
  <2>1. Head(releases) \in Slot /\ Tail(releases) \in Seq(Slot)
    BY <1>2, TailElements DEF PollOneRelease
  <2>2. slots' \in [Slot -> SlotState]
    BY <1>2, <2>1 DEF PollOneRelease, Released, SlotState
  <2> QED  BY <1>2, <2>1, <2>2 DEF PollOneRelease
<1>3. CASE Acquire(c)
  <2>1. PICK i \in Slot :
          /\ pc[c] = "acquire"
          /\ slots' = Acquired(i)
          /\ held' = [held EXCEPT ![c] = i]
          /\ pc' = [pc EXCEPT ![c] = "writing"]
          /\ UNCHANGED <<tasks, releases, peerUp>>
    BY <1>3 DEF Acquire
  <2>2. slots' \in [Slot -> SlotState]
    BY <2>1 DEF Acquired, SlotState
  <2> QED  BY <2>1, <2>2
<1>4. CASE SyncFailed(c) \/ SendFailed(c)
  <2>1. slots' \in [Slot -> SlotState]
    BY <1>4 DEF SyncFailed, SendFailed, Reverted, SlotState
  <2> QED  BY <1>4, <2>1 DEF SyncFailed, SendFailed
<1>5. CASE SendFrame(c)
  <2>1. held[c] \in Slot
    BY <1>5 DEF SendFrame
  <2>2. tasks' \in Seq(Slot)
    BY <1>5, <2>1, AppendElements DEF SendFrame
  <2> QED  BY <1>5, <2>2 DEF SendFrame
<1>6. CASE SubmitSlot(c)
  <2>1. slots' \in [Slot -> SlotState]
    BY <1>6 DEF SubmitSlot, Submitted, SlotState
  <2> QED  BY <1>6, <2>1 DEF SubmitSlot
<1> QED  BY <1>1, <1>2, <1>3, <1>4, <1>5, <1>6 DEF SubmitFrameStep

(* The message PublishScene makes: the sources are the channels with a     *)
(* frame, each with the slot of its oldest.                                *)
Ready == {c \in Channels : pads[c] # <<>>}

Batch == [c \in Ready |-> Head(pads[c])]

LEMMA BatchFacts ==
  ASSUME RelayTypeOK
  PROVE  /\ \A c \in Ready : Head(pads[c]) \in Slot
         /\ Batch \in Scene
         /\ Ready # {} => Batch \in Message
         /\ {Batch[c] : c \in Ready} = SlotsOf(Batch)
         /\ SlotsOf(Batch) \subseteq Slot
<1>1. \A c \in Ready : pads[c] \in Seq(Slot) /\ pads[c] # <<>>
  BY DEF Ready, RelayTypeOK
<1>2. \A c \in Ready : Head(pads[c]) \in Slot
  BY <1>1, TailElements
<1>3. Ready \in SUBSET Channels /\ Batch \in [Ready -> Slot]
  BY <1>2 DEF Ready, Batch
<1>4. Batch \in Scene /\ (Ready # {} => Batch # NoScene)
  BY <1>3, SceneMade
<1>5. DOMAIN Batch = Ready
  BY <1>3
<1> QED  BY <1>2, <1>4, <1>5, SceneFacts DEF Message, SlotsOf

LEMMA ReleaseEntriesFacts ==
  ASSUME RelayTypeOK
  PROVE  ReleaseEntries \subseteq Slot
  BY SceneFacts DEF RelayTypeOK, ReleaseEntries

(* Type correctness of the capture process's steps, *)
LEMMA CaptureType ==
  ASSUME RelayTypeOK,
         \/ \E c \in Channels : OffloadStep(c) \/ ForwardFrame(c)
         \/ PublishScene \/ EndOfStream \/ PipelineError \/ OnFrameDone \/ ReleaseEntry
  PROVE  RelayTypeOK'
<1> USE DEF RelayTypeOK, ConsumerTypeOK, pipeVars, ruleVars, producerVars, aggVars
<1>1. ASSUME NEW c \in Channels, SubmitFrameStep(c), UNCHANGED <<mapped, pipeVars>>
      PROVE  RelayTypeOK'
  BY <1>1, SubmitFrameType
<1>2. ASSUME NEW c \in Channels, PushFrame(c) PROVE RelayTypeOK'
  <2>1. ProducerTypeOK'
    BY <1>2, SubmitFrameType DEF PushFrame
  <2>2. held[c] \in Slot /\ queueAgg[c] \in Seq(Slot)
    BY <1>2 DEF PushFrame, SubmitSlot, ProducerTypeOK, Holding
  <2>3. queueAgg' \in [Channels -> Seq(Slot)] /\ lost' \subseteq Slot
    <3>1. CASE Enqueue(c, held[c])
      <4>1. ASSUME Len(queueAgg[c]) >= MaxSizeBuffers
            PROVE  Head(queueAgg[c]) \in Slot /\ Tail(queueAgg[c]) \in Seq(Slot)
        BY <4>1, <2>2, RelayAssumption, TailElements
      <4>2. CASE /\ queueAgg' = [queueAgg EXCEPT ![c] = Append(@, held[c])]
                 /\ UNCHANGED lost
        <5>1. Append(queueAgg[c], held[c]) \in Seq(Slot)
          BY <2>2, AppendElements
        <5> QED  BY <4>2, <5>1
      <4>3. CASE /\ Len(queueAgg[c]) >= MaxSizeBuffers
                 /\ queueAgg' = [queueAgg EXCEPT ![c] = Append(Tail(@), held[c])]
                 /\ lost' = lost \cup {Head(queueAgg[c])}
        <5>1. Append(Tail(queueAgg[c]), held[c]) \in Seq(Slot)
          BY <2>2, <4>1, <4>3, AppendElements
        <5> QED  BY <4>1, <4>3, <5>1
      <4> QED  BY <3>1, <4>2, <4>3 DEF Enqueue
    <3>2. CASE PushRefused(held[c])
      BY <3>2, <2>2 DEF PushRefused
    <3> QED  BY <1>2, <3>1, <3>2 DEF PushFrame
  <2> QED  BY <1>2, <2>1, <2>3 DEF PushFrame
<1>3. CASE PublishScene
  <2>1. Ready # {}
    BY <1>3 DEF PublishScene, Ready
  <2>2. pads' \in [Channels -> Seq(Slot)]
    BY <1>3, TailElements DEF PublishScene
  <2>3. CASE "scene_update" \in connected
    <3>1. scenes' = Append(scenes, Batch) /\ UNCHANGED lost
      BY <1>3, <2>3 DEF PublishScene, Batch, Ready
    <3>2. scenes' \in Seq(Message)
      BY <3>1, <2>1, BatchFacts, AppendElements DEF Message
    <3> QED  BY <1>3, <2>2, <3>1, <3>2 DEF PublishScene, ProducerTypeOK, SlotPoolTypeOK, Message
  <2>4. CASE "scene_update" \notin connected
    <3>1. lost' = lost \cup {Batch[c] : c \in Ready} /\ UNCHANGED scenes
      BY <1>3, <2>4 DEF PublishScene, Batch, Ready
    <3>2. lost' \subseteq Slot
      BY <3>1, BatchFacts
    <3> QED  BY <1>3, <2>2, <3>1, <3>2 DEF PublishScene, ProducerTypeOK, SlotPoolTypeOK
  <2> QED  BY <2>3, <2>4
<1>4. CASE OnFrameDone
  <2>1. Head(frameDone) \in SUBSET Slot /\ Tail(frameDone) \in Seq(SUBSET Slot)
    BY <1>4, TailElements DEF OnFrameDone
  <2> QED  BY <1>4, <2>1 DEF OnFrameDone, ProducerTypeOK, SlotPoolTypeOK
<1>5. CASE ReleaseEntry
  <2>1. slots' \in [Slot -> SlotState]
    BY <1>5 DEF ReleaseEntry, ReleaseSlotDirect, Released, ProducerTypeOK, SlotPoolTypeOK, SlotState
  <2> QED  BY <1>5, <2>1 DEF ReleaseEntry, ProducerTypeOK, SlotPoolTypeOK
<1>6. ASSUME NEW c \in Channels, ForwardFrame(c) PROVE RelayTypeOK'
  <2>1. /\ queueAgg[c] \in Seq(Slot) /\ queueAgg[c] # <<>> /\ pads[c] \in Seq(Slot)
        /\ queueAgg' = [queueAgg EXCEPT ![c] = Tail(@)]
        /\ pads' = [pads EXCEPT ![c] = Append(@, Head(queueAgg[c]))]
    BY <1>6 DEF ForwardFrame
  <2>2. Head(queueAgg[c]) \in Slot /\ Tail(queueAgg[c]) \in Seq(Slot)
    BY <2>1, TailElements
  <2>3. queueAgg' \in [Channels -> Seq(Slot)] /\ pads' \in [Channels -> Seq(Slot)]
    BY <2>1, <2>2, AppendElements
  <2> QED  BY <1>6, <2>3 DEF ForwardFrame, ProducerTypeOK, SlotPoolTypeOK
<1>7. CASE EndOfStream \/ PipelineError
  BY <1>7 DEF EndOfStream, PipelineError, ProducerTypeOK, SlotPoolTypeOK
<1> QED  BY <1>1, <1>2, <1>3, <1>4, <1>5, <1>6, <1>7 DEF OffloadStep

(* of rule_process's, *)
LEMMA RuleType ==
  ASSUME RelayTypeOK, RelayConnected \/ RuleStep \/ PublishFailed
  PROVE  RelayTypeOK'
<1> USE DEF RelayTypeOK, ConsumerTypeOK, ProducerTypeOK, SlotPoolTypeOK, ruleVars, producerVars, aggVars
<1>1. CASE RelayConnected
  BY <1>1 DEF RelayConnected
<1>2. CASE OnScene
  <2>1. Head(scenes) \in Message /\ Tail(scenes) \in Seq(Message)
    BY <1>2, TailElements DEF OnScene, Message
  <2>2. vqaSources = {}
    BY <1>2, NoSceneFacts DEF OnScene
  <2> QED  BY <1>2, <2>1, <2>2 DEF OnScene, Message
<1>3. ASSUME NEW c \in Channels, NotRelayed(c) \/ RelayFailed(c) PROVE RelayTypeOK'
  BY <1>3 DEF NotRelayed, RelayFailed
<1>4. ASSUME NEW c \in Channels, RelaySent(c) PROVE RelayTypeOK'
  <2>1. scene[c] \in Slot /\ c \in DOMAIN scene
    BY <1>4, SceneFacts DEF RelaySent
  <2>2. relay' \in Seq(Slot)
    BY <1>4, <2>1, AppendElements DEF RelaySent
  <2> QED  BY <1>4, <2>1, <2>2 DEF RelaySent
<1>5. CASE PublishFrameDone
  <2>1. frameDone' \in Seq(SUBSET Slot)
    BY <1>5, ReleaseEntriesFacts, AppendElements DEF PublishFrameDone
  <2> QED  BY <1>5, <2>1, NoSceneFacts DEF PublishFrameDone, EndScene
<1>6. CASE PublishFailed
  <2>1. lost' \subseteq Slot
    BY <1>6, ReleaseEntriesFacts DEF PublishFailed
  <2> QED  BY <1>6, <2>1, NoSceneFacts DEF PublishFailed, EndScene
<1> QED  BY <1>1, <1>2, <1>3, <1>4, <1>5, <1>6 DEF RuleStep

(* of the consumer's, and of the faults of the connections. *)
LEMMA ConsumerType ==
  ASSUME RelayTypeOK, MapRelayed \/ ReleaseMapped \/ ConsumerExit \/ ConnectionLost
  PROVE  RelayTypeOK'
<1> USE DEF RelayTypeOK, ConsumerTypeOK, ProducerTypeOK, SlotPoolTypeOK, ruleVars, producerVars, pipeVars, aggVars
<1>1. CASE MapRelayed
  <2>1. Head(relay) \in Slot /\ Tail(relay) \in Seq(Slot)
    BY <1>1, TailElements DEF MapRelayed
  <2> QED  BY <1>1, <2>1 DEF MapRelayed, MapFrame
<1>2. CASE ReleaseMapped
  <2>1. releases' \in Seq(Slot)
    BY <1>2, AppendElements DEF ReleaseMapped, ReleaseFrame
  <2> QED  BY <1>2, <2>1 DEF ReleaseMapped, ReleaseFrame
<1>3. CASE ConsumerExit
  <2>1. \A k \in 1 .. Len(relay) : relay[k] \in Slot
    OBVIOUS
  <2>2. lost' \subseteq Slot
    BY <1>3, <2>1 DEF ConsumerExit
  <2>3. relay' \in Seq(Slot) /\ tasks' \in Seq(Slot)
    BY <1>3 DEF ConsumerExit, CloseConsumer
  <2> QED  BY <1>3, <2>2, <2>3 DEF ConsumerExit, CloseConsumer
<1>4. CASE ConnectionLost
  <2>1. PICK topic \in Faults \cap connected :
          /\ connected' = connected \ {topic}
          /\ IF topic = "scene_update" THEN LoseScenes ELSE LoseFrameDones
          /\ UNCHANGED <<producerVars, mapped, aggVars, ruleVars, relayFd, relay, releasing>>
    BY <1>4 DEF ConnectionLost
  <2>2. CASE LoseScenes
    <3>1. PICK k \in 0 .. Len(scenes) :
            /\ scenes' = SubSeq(scenes, 1, k)
            /\ lost' = lost \cup (UNION {SlotsOf(scenes[j]) : j \in k + 1 .. Len(scenes)})
            /\ UNCHANGED frameDone
      BY <2>2 DEF LoseScenes
    <3>2. scenes' \in Seq(Message)
      BY <3>1, SlotSetsPrefix DEF Message
    <3>3. \A j \in k + 1 .. Len(scenes) : j \in 1 .. Len(scenes)
      OBVIOUS
    <3>4. \A j \in k + 1 .. Len(scenes) : SlotsOf(scenes[j]) \subseteq Slot
      BY <3>3, SceneFacts
    <3> QED  BY <2>1, <3>1, <3>2, <3>4 DEF Message
  <2>3. CASE LoseFrameDones
    <3>1. PICK k \in 0 .. Len(frameDone) :
            /\ frameDone' = SubSeq(frameDone, 1, k)
            /\ lost' = lost \cup (UNION {frameDone[j] : j \in k + 1 .. Len(frameDone)})
            /\ UNCHANGED scenes
      BY <2>3 DEF LoseFrameDones
    <3>2. frameDone' \in Seq(SUBSET Slot)
      BY <3>1
    <3>3. \A j \in k + 1 .. Len(frameDone) : j \in 1 .. Len(frameDone)
      OBVIOUS
    <3>4. \A j \in k + 1 .. Len(frameDone) : frameDone[j] \subseteq Slot
      BY <3>3
    <3> QED  BY <2>1, <3>1, <3>2, <3>4
  <2> QED  BY <2>1, <2>2, <2>3
<1> QED  BY <1>1, <1>2, <1>3, <1>4

LEMMA TypeInductive == RelayTypeOK /\ [Next]_vars => RelayTypeOK'
<1>1. RelayTypeOK /\ UNCHANGED vars => RelayTypeOK'
  BY DEF vars, RelayTypeOK, ConsumerTypeOK, ProducerTypeOK, SlotPoolTypeOK, ruleVars, producerVars, pipeVars, aggVars
<1> QED  BY <1>1, CaptureType, RuleType, ConsumerType DEF Next

LEMMA InitType == Init => RelayTypeOK
  BY NoSceneFacts
  DEF Init, ProducerInit, ConsumerInit, SlotPoolInit, RelayTypeOK, ConsumerTypeOK, ProducerTypeOK,
      SlotPoolTypeOK, SlotState, Holding

(* Type correctness: slots are the only thing that travels through the     *)
(* pads, messages, sockets and clients of the three processes, and the     *)
(* sources relayed are sources of the scene that have had their rules run. *)
THEOREM RelayTypeCorrect == Spec => []RelayTypeOK
  BY InitType, TypeInductive, PTL DEF Spec

-----------------------------------------------------------------------------
(* Moving a slot. *)

(* A step that leaves the variables of a place alone, leaves what is there. *)
LEMMA PlaceKept ==
  ASSUME NEW i
  PROVE  /\ UNCHANGED queueAgg => ((InQueue(i))' <=> InQueue(i)) /\ (QueueOnce => QueueOnce')
         /\ UNCHANGED pads => ((InPads(i))' <=> InPads(i)) /\ (PadsOnce => PadsOnce')
         /\ UNCHANGED scenes => ((InScenes(i))' <=> InScenes(i)) /\ (ScenesOnce => ScenesOnce')
         /\ UNCHANGED <<scene, vqaSources>> => ((InRule(i))' <=> InRule(i))
         /\ UNCHANGED scene => (RuleOnce => RuleOnce')
         /\ UNCHANGED relay => ((InSeq(relay, i))' <=> InSeq(relay, i)) /\ (RelayOnce => RelayOnce')
         /\ UNCHANGED frameDone =>
              ((InSets(frameDone, i))' <=> InSets(frameDone, i)) /\ (FrameDoneOnce => FrameDoneOnce')
         /\ UNCHANGED releases =>
              ((InSeq(releases, i))' <=> InSeq(releases, i)) /\ (ReleasesOnce => ReleasesOnce')
<1>1. UNCHANGED pads => ((InPads(i))' <=> InPads(i)) /\ (PadsOnce => PadsOnce')
  BY DEF InPads, Somewhere, PadsOnce, OnceAmong
<1>2. UNCHANGED scenes => ((InScenes(i))' <=> InScenes(i)) /\ (ScenesOnce => ScenesOnce')
  <2>1. UNCHANGED scenes => SlotSets(scenes') = SlotSets(scenes)
    OBVIOUS
  <2> QED  BY <2>1 DEF InScenes, ScenesOnce
<1>3. UNCHANGED <<scene, vqaSources>> => ((InRule(i))' <=> InRule(i))
  BY DEF InRule
<1>4. UNCHANGED scene => (RuleOnce => RuleOnce')
  BY DEF RuleOnce
<1>5. UNCHANGED relay => ((InSeq(relay, i))' <=> InSeq(relay, i)) /\ (RelayOnce => RelayOnce')
  BY DEF RelayOnce
<1>6. UNCHANGED frameDone =>
         ((InSets(frameDone, i))' <=> InSets(frameDone, i)) /\ (FrameDoneOnce => FrameDoneOnce')
  BY DEF FrameDoneOnce
<1>8. UNCHANGED queueAgg => ((InQueue(i))' <=> InQueue(i)) /\ (QueueOnce => QueueOnce')
  BY DEF InQueue, Somewhere, QueueOnce, OnceAmong
<1>7. UNCHANGED releases =>
         ((InSeq(releases, i))' <=> InSeq(releases, i)) /\ (ReleasesOnce => ReleasesOnce')
  BY DEF ReleasesOnce
<1> QED  BY <1>1, <1>2, <1>3, <1>4, <1>5, <1>6, <1>7, <1>8

(* A slot found in one place is in flight and in no other. *)
LEMMA LocatedOnly ==
  ASSUME NEW i \in Slot, Located(i), NEW p \in Place, IsAt(p, i)
  PROVE  slots[i] = "ON_FLIGHT" /\ OnlyAt(p, i)
  BY DEF Located, OnlyAt, Nowhere

LEMMA LocatedKept ==
  ASSUME NEW i \in Slot, Located(i),
         slots'[i] = "ON_FLIGHT" <=> slots[i] = "ON_FLIGHT",
         \A p \in Place : (IsAt(p, i))' <=> IsAt(p, i)
  PROVE  (Located(i))'
  BY DEF Located, OnlyAt, Nowhere

(* The slots of S go from place p to place q, no other slot moves. *)
Move(S, p, q) ==
  /\ \A i \in S : IsAt(p, i)
  /\ \A i \in Slot : \A r \in Place :
       (IsAt(r, i))' <=> IF i \in S THEN r = q \/ (r # p /\ IsAt(r, i)) ELSE IsAt(r, i)

LEMMA MoveKeeps ==
  ASSUME EachLocated, UNCHANGED slots,
         NEW S \in SUBSET Slot, NEW p \in Place, NEW q \in Place, Move(S, p, q)
  PROVE  EachLocated'
<1>1. ASSUME NEW i \in Slot, i \in S PROVE (Located(i))'
  <2>1. slots[i] = "ON_FLIGHT" /\ OnlyAt(p, i)
    BY <1>1, LocatedOnly DEF EachLocated, Move
  <2>2. (OnlyAt(q, i))'
    BY <1>1, <2>1 DEF OnlyAt, Move
  <2> QED  BY <2>1, <2>2 DEF Located
<1>2. ASSUME NEW i \in Slot, i \notin S PROVE (Located(i))'
  BY <1>2, LocatedKept DEF EachLocated, Move
<1> QED  BY <1>1, <1>2 DEF EachLocated

(* The release of a slot that is at p takes it from there. *)
Leave(h, p) ==
  /\ IsAt(p, h)
  /\ slots' = Released(h)
  /\ \A i \in Slot : \A r \in Place : (IsAt(r, i))' <=> IsAt(r, i) /\ ~ (i = h /\ r = p)

LEMMA LeaveKeeps ==
  ASSUME EachLocated, RelayTypeOK, NEW h \in Slot, NEW p \in Place, Leave(h, p)
  PROVE  /\ EachLocated'
         /\ \A i \in Slot : slots'[i] = "IN_USE" <=> slots[i] = "IN_USE"
<1>1. slots[h] = "ON_FLIGHT" /\ OnlyAt(p, h)
  BY LocatedOnly DEF EachLocated, Leave
<1>2. slots'[h] = "IDLE" /\ \A i \in Slot \ {h} : slots'[i] = slots[i]
  BY <1>1 DEF Leave, Released, CanRelease, RelayTypeOK, ProducerTypeOK, SlotPoolTypeOK
<1>3. (Located(h))'
  BY <1>1, <1>2 DEF Located, OnlyAt, Nowhere, Leave
<1>4. ASSUME NEW i \in Slot, i # h PROVE (Located(i))'
  BY <1>2, <1>4, LocatedKept DEF EachLocated, Leave
<1> QED  BY <1>1, <1>2, <1>3, <1>4 DEF EachLocated

(* The pool's IN_USE slots do not change, and nobody takes or gives up one. *)
LEMMA HoldersKept ==
  ASSUME HoldersAgree, RelayTypeOK, UNCHANGED <<pc, held>>,
         \A i \in Slot : slots'[i] = "IN_USE" <=> slots[i] = "IN_USE"
  PROVE  HoldersAgree'
  BY DEF HoldersAgree, RelayTypeOK, ProducerTypeOK

(* A thread ends with its slot. *)
LEMMA HolderLeaves ==
  ASSUME HoldersAgree, RelayTypeOK, NEW c \in Channels, pc[c] \in Holding,
         pc' = [pc EXCEPT ![c] = "idle"], held' = [held EXCEPT ![c] = NoSlot],
         slots'[held[c]] # "IN_USE", \A j \in Slot \ {held[c]} : slots'[j] = slots[j]
  PROVE  HoldersAgree'
<1> USE DEF RelayTypeOK, ProducerTypeOK
<1>1. /\ pc'[c] \notin Holding
      /\ \A d \in Channels \ {c} : pc'[d] = pc[d] /\ held'[d] = held[d]
  BY DEF Holding
<1>2. \A d \in Channels \ {c} : pc[d] \in Holding => held[d] # held[c] /\ held[d] \in Slot
  BY DEF HoldersAgree
<1>3. \A d \in Channels : pc'[d] \in Holding =>
        pc[d] \in Holding /\ held'[d] = held[d] /\ slots'[held[d]] = "IN_USE"
  BY <1>1, <1>2 DEF HoldersAgree
<1>4. \A j \in Slot : slots'[j] = "IN_USE" => \E d \in Channels : pc'[d] \in Holding /\ held'[d] = j
  <2> SUFFICES ASSUME NEW j \in Slot, j # held[c], slots[j] = "IN_USE"
               PROVE  \E d \in Channels : pc'[d] \in Holding /\ held'[d] = j
    OBVIOUS
  <2>1. PICK d \in Channels : pc[d] \in Holding /\ held[d] = j
    BY DEF HoldersAgree
  <2> QED  BY <2>1, <1>1
<1> QED  BY <1>3, <1>4 DEF HoldersAgree

(* or goes on with the slot it holds. *)
LEMMA HoldersSame ==
  ASSUME HoldersAgree, UNCHANGED slots,
         \A c \in Channels : pc'[c] \in Holding <=> pc[c] \in Holding,
         \A c \in Channels : pc[c] \in Holding => held'[c] = held[c]
  PROVE  HoldersAgree'
<1>1. \A c, d \in Channels : pc'[c] \in Holding /\ pc'[d] \in Holding /\ held'[c] = held'[d] => c = d
  BY DEF HoldersAgree
<1>2. \A c \in Channels : pc'[c] \in Holding => slots'[held'[c]] = "IN_USE"
  BY DEF HoldersAgree
<1>3. \A i \in Slot : slots'[i] = "IN_USE" => \E c \in Channels : pc'[c] \in Holding /\ held'[c] = i
  BY DEF HoldersAgree
<1> QED  BY <1>1, <1>2, <1>3 DEF HoldersAgree

(* Steps between the places. *)
LEMMA PlacesKept ==
  ASSUME EachLocated, NothingTwice,
         UNCHANGED <<queueAgg, pads, scenes, scene, vqaSources, relay, frameDone, releasing, mapped, releases, lost>>,
         \A i \in Slot : slots'[i] = "ON_FLIGHT" <=> slots[i] = "ON_FLIGHT"
  PROVE  EachLocated' /\ NothingTwice'
<1>1. ASSUME NEW i \in Slot PROVE (Located(i))'
  <2>1. \A p \in Place : (IsAt(p, i))' <=> IsAt(p, i)
    BY PlaceKept DEF IsAt
  <2> QED  BY <2>1, LocatedKept DEF EachLocated
<1>2. NothingTwice'
  BY PlaceKept DEF NothingTwice
<1> QED  BY <1>1, <1>2 DEF EachLocated

(* SubmitFrame up to its last step, PollReleases apart: slots come and go  *)
(* between the pool and a thread.                                          *)
LEMMA SubmitFrameConserves ==
  ASSUME IInv, NEW c \in Channels, SubmitFrameStep(c), ~ PollOneRelease(c),
         UNCHANGED <<mapped, pipeVars>>
  PROVE  Conserved'
<1> USE DEF IInv, Conserved, RelayTypeOK, ProducerTypeOK, SlotPoolTypeOK
<1>1. UNCHANGED <<queueAgg, pads, scenes, scene, vqaSources, relay, frameDone, releasing, mapped, lost>>
  BY DEF pipeVars, ruleVars, aggVars
<1>2. CASE StartSubmit(c) \/ PollDone(c) \/ NoFreeSlot(c) \/ Written(c) \/ SendFrame(c)
  <2>1. UNCHANGED <<slots, releases>>
    BY <1>2 DEF StartSubmit, PollDone, NoFreeSlot, Written, SendFrame
  <2>2. \A d \in Channels : pc'[d] \in Holding <=> pc[d] \in Holding
    BY <1>2 DEF StartSubmit, PollDone, NoFreeSlot, Written, SendFrame, Goto, Return, Holding
  <2>3. \A d \in Channels : pc[d] \in Holding => held'[d] = held[d]
    BY <1>2 DEF StartSubmit, PollDone, NoFreeSlot, Written, SendFrame, Goto, Return, Holding
  <2>4. HoldersAgree'
    BY <2>1, <2>2, <2>3, HoldersSame
  <2> QED  BY <1>1, <2>1, <2>4, PlacesKept
<1>3. CASE Acquire(c)
  <2>1. PICK i \in Slot :
          /\ pc[c] = "acquire" /\ IsFirstIdle(i)
          /\ slots' = [slots EXCEPT ![i] = "IN_USE"]
          /\ held' = [held EXCEPT ![c] = i]
          /\ pc' = [pc EXCEPT ![c] = "writing"]
          /\ UNCHANGED <<tasks, releases, peerUp>>
    BY <1>3 DEF Acquire, Acquired, Goto
  <2>2. /\ slots[i] = "IDLE" /\ slots'[i] = "IN_USE"
        /\ \A j \in Slot \ {i} : slots'[j] = slots[j]
    BY <2>1 DEF IsFirstIdle
  <2>3. /\ pc[c] \notin Holding /\ pc'[c] \in Holding /\ held'[c] = i
        /\ \A d \in Channels \ {c} : pc'[d] = pc[d] /\ held'[d] = held[d]
    BY <2>1 DEF Holding
  <2>4. \A d \in Channels : pc[d] \in Holding => held[d] # i /\ held[d] \in Slot
    BY <2>2 DEF HoldersAgree
  <2>5. HoldersAgree'
    <3>1. \A d \in Channels : pc'[d] \in Holding =>
            \/ d = c
            \/ pc[d] \in Holding /\ held'[d] = held[d] /\ held[d] # i /\ slots'[held[d]] = "IN_USE"
      BY <2>2, <2>3, <2>4 DEF HoldersAgree
    <3>2. \A j \in Slot : slots'[j] = "IN_USE" => \E d \in Channels : pc'[d] \in Holding /\ held'[d] = j
      <4> SUFFICES ASSUME NEW j \in Slot, j # i, slots[j] = "IN_USE"
                   PROVE  \E d \in Channels : pc'[d] \in Holding /\ held'[d] = j
        BY <2>2, <2>3
      <4>1. PICK d \in Channels : pc[d] \in Holding /\ held[d] = j
        BY DEF HoldersAgree
      <4> QED  BY <4>1, <2>3
    <3> QED  BY <2>2, <2>3, <3>1, <3>2 DEF HoldersAgree
  <2> QED  BY <1>1, <2>1, <2>2, <2>5, PlacesKept
<1>4. CASE SyncFailed(c) \/ SendFailed(c)
  <2>1. /\ pc[c] \in Holding /\ slots' = Reverted(held[c]) /\ UNCHANGED releases
        /\ pc' = [pc EXCEPT ![c] = "idle"] /\ held' = [held EXCEPT ![c] = NoSlot]
    BY <1>4 DEF SyncFailed, SendFailed, Return, Goto, Holding
  <2>2. held[c] \in Slot /\ slots[held[c]] = "IN_USE"
    BY <2>1 DEF HoldersAgree
  <2>3. slots'[held[c]] = "IDLE" /\ \A j \in Slot \ {held[c]} : slots'[j] = slots[j]
    BY <2>1, <2>2 DEF Reverted, CanRevert
  <2>4. HoldersAgree'
    BY <2>1, <2>2, <2>3, HolderLeaves
  <2> QED  BY <1>1, <2>1, <2>2, <2>3, <2>4, PlacesKept
<1> QED  BY <1>2, <1>3, <1>4 DEF SubmitFrameStep

(* PollReleases: the slot of the packet was in flight, and is nowhere.     *)
LEMMA PollConserves ==
  ASSUME IInv, NEW c \in Channels, PollOneRelease(c), UNCHANGED <<mapped, pipeVars>>
  PROVE  Conserved'
<1> USE DEF IInv, Conserved, RelayTypeOK, ProducerTypeOK
<1> DEFINE h == Head(releases)
<1>1. /\ UNCHANGED <<queueAgg, pads, scenes, scene, vqaSources, relay, frameDone, releasing, mapped, lost, pc, held>>
      /\ releases \in Seq(Slot) /\ releases # <<>> /\ releases' = Tail(releases)
      /\ slots' = Released(h)
  BY DEF pipeVars, ruleVars, PollOneRelease, aggVars
<1>2. h \in Slot
  BY <1>1, TailElements
<1>3. ASSUME NEW i \in Slot
      PROVE  /\ InSeq(releases, h)
             /\ InSeq(releases', i) <=> InSeq(releases, i) /\ i # h
             /\ OnceIn(releases', i)
  BY <1>1, InTail DEF NothingTwice, ReleasesOnce
<1>4. Leave(h, "releases")
  BY <1>1, <1>2, <1>3, PlaceKept DEF Leave, IsAt
<1>5. EachLocated' /\ HoldersAgree'
  <2>1. "releases" \in Place
    BY DEF Place
  <2> QED  BY <2>1, <1>1, <1>2, <1>4, LeaveKeeps, HoldersKept
<1>6. NothingTwice'
  <2>1. ReleasesOnce'
    BY <1>3 DEF ReleasesOnce
  <2> QED  BY <2>1, <1>1, PlaceKept DEF NothingTwice
<1> QED  BY <1>5, <1>6

(* A slot that was nowhere is in flight, in place p, and those of S, which *)
(* a full queue_agg dropped, are lost.                                     *)
Arrive(h, p, S) ==
  \A i \in Slot : \A r \in Place :
    (IsAt(r, i))' <=>
      IF i = h THEN r = p
      ELSE IF i \in S THEN r = "lost" \/ (r # "queue" /\ IsAt(r, i))
      ELSE IsAt(r, i)

LEMMA ArriveKeeps ==
  ASSUME EachLocated, NEW h \in Slot, NEW p \in Place, NEW S \in SUBSET Slot,
         \A i \in S : IsAt("queue", i), Nowhere(h), Arrive(h, p, S),
         slots'[h] = "ON_FLIGHT", \A j \in Slot \ {h} : slots'[j] = slots[j]
  PROVE  EachLocated'
<1>1. (Located(h))'
  <2>1. (OnlyAt(p, h))'
    BY DEF OnlyAt, Arrive
  <2> QED  BY <2>1 DEF Located
<1>2. "queue" \in Place /\ "lost" \in Place
  BY DEF Place
<1>3. ASSUME NEW i \in Slot, i # h, i \in S PROVE (Located(i))'
  <2>1. slots[i] = "ON_FLIGHT" /\ OnlyAt("queue", i)
    BY <1>2, <1>3, LocatedOnly DEF EachLocated
  <2>2. (OnlyAt("lost", i))'
    BY <1>2, <1>3, <2>1 DEF OnlyAt, Arrive
  <2> QED  BY <1>2, <1>3, <2>1, <2>2 DEF Located
<1>4. ASSUME NEW i \in Slot, i # h, i \notin S PROVE (Located(i))'
  BY <1>4, LocatedKept DEF EachLocated, Arrive
<1> QED  BY <1>1, <1>3, <1>4 DEF EachLocated

(* SubmitSlot and the push of the frame: the slot is in its channel's      *)
(* queue_agg, which may have dropped its oldest, or lost.                  *)
LEMMA PushConserves ==
  ASSUME IInv, NEW c \in Channels, PushFrame(c)
  PROVE  Conserved'
<1> USE DEF IInv, Conserved, RelayTypeOK, ProducerTypeOK, SlotPoolTypeOK
<1> DEFINE h == held[c]
<1>1. /\ UNCHANGED <<pads, scenes, scene, vqaSources, relay, frameDone, releasing, mapped, releases>>
      /\ pc[c] \in Holding /\ slots' = Submitted(h)
      /\ pc' = [pc EXCEPT ![c] = "idle"] /\ held' = [held EXCEPT ![c] = NoSlot]
  BY DEF ruleVars, PushFrame, SubmitSlot, Return, Goto, Holding
<1>2. h \in Slot /\ slots[h] = "IN_USE"
  BY <1>1 DEF HoldersAgree
<1>3. /\ slots'[h] = "ON_FLIGHT" /\ \A j \in Slot \ {h} : slots'[j] = slots[j]
      /\ Enqueue(c, h) \/ PushRefused(h)
  BY <1>1, <1>2 DEF PushFrame, Submitted, CanSubmit
<1>4. Nowhere(h) /\ \A r \in Place : ~ IsAt(r, h)
  BY <1>2 DEF EachLocated, Located, Nowhere
<1>5. ~ Somewhere(queueAgg, h) /\ OnceAmong(queueAgg) /\ queueAgg \in [Channels -> Seq(Slot)]
  BY <1>4 DEF IsAt, InQueue, Place, NothingTwice, QueueOnce
<1>6. HoldersAgree'
  BY <1>1, <1>3, HolderLeaves
<1>7. /\ "queue" \in Place /\ "lost" \in Place
      /\ {} \in SUBSET Slot /\ \A i \in {} : IsAt("queue", i)
      /\ EachLocated /\ NothingTwice
  BY DEF Place
<1> HIDE DEF IInv, Conserved, RelayTypeOK, ProducerTypeOK, SlotPoolTypeOK, h
<1>8. CASE /\ queueAgg' = [queueAgg EXCEPT ![c] = Append(@, h)]
           /\ UNCHANGED lost
  <2>1. /\ OnceAmong(queueAgg')
        /\ \A i \in Slot : Somewhere(queueAgg', i) <=> Somewhere(queueAgg, i) \/ i = h
    BY <1>2, <1>5, <1>8, SomewhereAppend
  <2>2. Arrive(h, "queue", {})
    <3>1. ASSUME NEW i \in Slot, NEW r \in Place
          PROVE  (IsAt(r, i))' <=> IF i = h THEN r = "queue" ELSE IsAt(r, i)
      BY <1>1, <1>4, <1>8, <2>1, PlaceKept DEF IsAt, InQueue
    <3> QED  BY <3>1 DEF Arrive
  <2>3. EachLocated'
    BY <1>2, <1>3, <1>4, <1>7, <2>2, ArriveKeeps
  <2>4. NothingTwice'
    <3>1. QueueOnce'
      BY <2>1 DEF QueueOnce
    <3> QED  BY <3>1, <1>1, <1>7, PlaceKept DEF NothingTwice
  <2> QED  BY <1>6, <2>3, <2>4 DEF Conserved
<1>9. CASE /\ Len(queueAgg[c]) >= MaxSizeBuffers
           /\ queueAgg' = [queueAgg EXCEPT ![c] = Append(Tail(@), h)]
           /\ lost' = lost \cup {Head(queueAgg[c])}
  <2> DEFINE e == Head(queueAgg[c])
  <2>1. queueAgg[c] # <<>>
    BY <1>9, RelayAssumption
  <2>2. /\ OnceAmong(queueAgg') /\ e \in Slot /\ Somewhere(queueAgg, e)
        /\ \A i \in Slot : Somewhere(queueAgg', i) <=> (Somewhere(queueAgg, i) /\ i # e) \/ i = h
    BY <1>2, <1>5, <1>9, <2>1, SomewhereShift
  <2>3. e # h
    BY <1>5, <2>2
  <2>4. Arrive(h, "queue", {e})
    <3>1. lost' = lost \cup {e}
      BY <1>9
    <3> HIDE DEF e
    <3>2. ASSUME NEW i \in Slot, NEW r \in Place
          PROVE  (IsAt(r, i))' <=>
                   IF i = h THEN r = "queue"
                   ELSE IF i \in {e} THEN r = "lost" \/ (r # "queue" /\ IsAt(r, i))
                   ELSE IsAt(r, i)
      BY <1>1, <1>4, <2>2, <2>3, <3>1, PlaceKept DEF IsAt, InQueue
    <3> QED  BY <3>2 DEF Arrive
  <2>5. IsAt("queue", e)
    BY <2>2 DEF IsAt, InQueue
  <2>6. EachLocated'
    <3>1. {e} \in SUBSET Slot /\ \A i \in {e} : IsAt("queue", i)
      BY <2>2, <2>5
    <3> QED  BY <1>2, <1>3, <1>4, <1>7, <2>4, <3>1, ArriveKeeps
  <2>7. NothingTwice'
    <3>1. QueueOnce'
      BY <2>2 DEF QueueOnce
    <3> QED  BY <3>1, <1>1, <1>7, PlaceKept DEF NothingTwice
  <2> QED  BY <1>6, <2>6, <2>7 DEF Conserved
<1>10. CASE PushRefused(h)
  <2>1. UNCHANGED queueAgg /\ lost' = lost \cup {h}
    BY <1>10 DEF PushRefused
  <2>2. Arrive(h, "lost", {})
    <3>1. ASSUME NEW i \in Slot, NEW r \in Place
          PROVE  (IsAt(r, i))' <=> IF i = h THEN r = "lost" ELSE IsAt(r, i)
      BY <1>1, <1>4, <2>1, PlaceKept DEF IsAt
    <3> QED  BY <3>1 DEF Arrive
  <2>3. EachLocated'
    BY <1>2, <1>3, <1>4, <1>7, <2>2, ArriveKeeps
  <2>4. NothingTwice'
    <3>1. QueueOnce'
      BY <1>7, <2>1, PlaceKept DEF NothingTwice
    <3> QED  BY <3>1, <1>1, <1>7, PlaceKept DEF NothingTwice
  <2> QED  BY <1>6, <2>3, <2>4 DEF Conserved
<1> QED  BY <1>3, <1>8, <1>9, <1>10, Zenon DEF Enqueue

(* The thread of queue_agg takes a slot to the channel's pad. *)
LEMMA ForwardConserves ==
  ASSUME IInv, NEW c \in Channels, ForwardFrame(c)
  PROVE  Conserved'
<1> USE DEF IInv, Conserved, RelayTypeOK
<1> DEFINE h == Head(queueAgg[c])
<1>1. /\ UNCHANGED <<slots, pc, held, scenes, scene, vqaSources, relay, frameDone, releasing, mapped,
                     releases, lost>>
      /\ queueAgg[c] # <<>> /\ queueAgg' = [queueAgg EXCEPT ![c] = Tail(@)]
      /\ pads' = [pads EXCEPT ![c] = Append(@, h)]
      /\ queueAgg \in [Channels -> Seq(Slot)] /\ pads \in [Channels -> Seq(Slot)]
      /\ OnceAmong(queueAgg) /\ OnceAmong(pads)
  BY DEF producerVars, ruleVars, ForwardFrame, NothingTwice, QueueOnce, PadsOnce
<1>2. /\ OnceAmong(queueAgg') /\ h \in Slot /\ Somewhere(queueAgg, h)
      /\ \A i \in Slot : Somewhere(queueAgg', i) <=> Somewhere(queueAgg, i) /\ i # h
  BY <1>1, SomewhereTail
<1>3. "queue" \in Place /\ "pads" \in Place /\ {h} \in SUBSET Slot
  BY <1>2 DEF Place
<1>4. IsAt("queue", h)
  BY <1>2 DEF IsAt, InQueue
<1>5. ~ Somewhere(pads, h)
  BY <1>2, <1>3, <1>4, LocatedOnly DEF EachLocated, OnlyAt, IsAt, InPads
<1> HIDE DEF h
<1>6. /\ OnceAmong(pads')
      /\ \A i \in Slot : Somewhere(pads', i) <=> Somewhere(pads, i) \/ i = h
  BY <1>1, <1>2, <1>5, SomewhereAppend
<1>7. Move({h}, "queue", "pads")
  <2>1. \A i \in {h} : IsAt("queue", i)
    BY <1>4
  <2>2. ASSUME NEW i \in Slot, NEW r \in Place
        PROVE  (IsAt(r, i))' <=> IF i \in {h} THEN r = "pads" \/ (r # "queue" /\ IsAt(r, i)) ELSE IsAt(r, i)
    BY <1>1, <1>2, <1>6, PlaceKept DEF IsAt, InQueue, InPads
  <2> QED  BY <2>1, <2>2 DEF Move
<1>8. EachLocated' /\ HoldersAgree'
  BY <1>1, <1>3, <1>7, MoveKeeps, HoldersKept
<1>9. NothingTwice'
  BY <1>1, <1>2, <1>6, PlaceKept DEF NothingTwice, QueueOnce, PadsOnce
<1> QED  BY <1>8, <1>9

(* PublishScene: the oldest slot of each pad is in the message, or lost. *)
LEMMA PublishConserves ==
  ASSUME IInv, PublishScene
  PROVE  Conserved'
<1> USE DEF IInv, Conserved, RelayTypeOK, ProducerTypeOK, SlotPoolTypeOK
<1> DEFINE B == SlotsOf(Batch)
<1>1. /\ UNCHANGED <<slots, pc, held, queueAgg, scene, vqaSources, relay, frameDone, releasing, mapped, releases>>
      /\ Ready # {}
      /\ \A c \in Ready : pads'[c] = Tail(pads[c]) /\ pads[c] \in Seq(Slot) /\ pads[c] # <<>>
      /\ \A c \in Channels \ Ready : pads'[c] = pads[c]
  BY DEF producerVars, ruleVars, PublishScene, Ready, aggVars
<1>2. B \subseteq Slot /\ Batch \in Message /\ \A c \in Ready : Head(pads[c]) \in Slot
  BY <1>1, BatchFacts
<1>3. \A i : i \in B <=> \E c \in Ready : Head(pads[c]) = i
  BY DEF SlotsOf, Batch
<1>4. ASSUME NEW i \in Slot, NEW c \in Ready
      PROVE  /\ InSeq(pads'[c], i) <=> InSeq(pads[c], i) /\ i # Head(pads[c])
             /\ OnceIn(pads'[c], i)
             /\ i = Head(pads[c]) => InSeq(pads[c], i)
  <2>1. OnceIn(pads[c], i)
    BY DEF NothingTwice, PadsOnce, OnceAmong, Ready
  <2> QED  BY <1>1, <2>1, InTail
<1>5. Ready \subseteq Channels
  BY DEF Ready
<1>6. ASSUME NEW i \in Slot
      PROVE  /\ (InPads(i))' <=> InPads(i) /\ i \notin B
             /\ i \in B => InPads(i)
             /\ \A c \in Channels : InSeq(pads'[c], i) => InSeq(pads[c], i)
             /\ \A c \in Channels : OnceIn(pads'[c], i)
  <2>1. \A c \in Channels : InSeq(pads'[c], i) <=>
          InSeq(pads[c], i) /\ ~ (c \in Ready /\ i = Head(pads[c]))
    BY <1>1, <1>4
  <2>2. \A c \in Channels : OnceIn(pads'[c], i)
    BY <1>1, <1>4 DEF NothingTwice, PadsOnce, OnceAmong
  <2>3. \A c, d \in Channels : InSeq(pads[c], i) /\ d \in Ready /\ i = Head(pads[d]) => c = d
    BY <1>4, <1>5 DEF NothingTwice, PadsOnce, OnceAmong
  <2>4. i \in B => InPads(i)
    BY <1>3, <1>4, <1>5 DEF InPads, Somewhere
  <2>5. (InPads(i))' <=> InPads(i) /\ i \notin B
    BY <2>1, <2>3, <1>3, <1>5 DEF InPads, Somewhere
  <2> QED  BY <2>1, <2>2, <2>4, <2>5
<1>7. PadsOnce'
  BY <1>6 DEF NothingTwice, PadsOnce, OnceAmong
<1>8. \A i \in B : IsAt("pads", i) /\ OnlyAt("pads", i)
  <2>1. "pads" \in Place /\ \A i \in B : IsAt("pads", i)
    BY <1>2, <1>6 DEF IsAt, Place
  <2> QED  BY <1>2, <2>1, LocatedOnly DEF EachLocated
<1>9. HoldersAgree'
  BY <1>1, HoldersKept
<1>10. CASE "scene_update" \in connected
  <2>1. scenes' = Append(scenes, Batch) /\ UNCHANGED lost
    BY <1>10 DEF PublishScene, Batch, Ready
  <2>2. /\ SlotSets(scenes') = Append(SlotSets(scenes), B)
        /\ SlotSets(scenes) \in Seq(SUBSET Slot) /\ B \in SUBSET Slot
    BY <2>1, <1>2, SlotSetsAppend, SlotSetsElements DEF Message
  <2>3. \A i \in B : ~ InScenes(i)
    BY <1>8 DEF OnlyAt, IsAt, Place
  <2>4. ASSUME NEW i \in Slot
        PROVE  /\ (InScenes(i))' <=> InScenes(i) \/ i \in B
               /\ OnceInSets(SlotSets(scenes'), i)
    <3>1. OnceInSets(SlotSets(scenes), i) /\ ~ (i \in B /\ InSets(SlotSets(scenes), i))
      BY <2>3 DEF InScenes, NothingTwice, ScenesOnce
    <3> DEFINE q == SlotSets(scenes)
    <3>2. q \in Seq(SUBSET Slot) /\ B \in SUBSET Slot /\ SlotSets(scenes') = Append(q, B)
      BY <2>2
    <3> HIDE DEF B, q
    <3>3. /\ InSets(Append(q, B), i) <=> InSets(q, i) \/ i \in B
          /\ OnceInSets(q, i) /\ ~ (i \in B /\ InSets(q, i)) => OnceInSets(Append(q, B), i)
      BY <3>2, InSetsAppend
    <3> QED  BY <3>1, <3>2, <3>3 DEF InScenes, q
  <2>5. OneSourceEach(Batch)
    <3> SUFFICES ASSUME NEW c \in Ready, NEW d \in Ready, Head(pads[c]) = Head(pads[d]) PROVE c = d
      BY DEF OneSourceEach, Batch
    <3> QED  BY <1>2, <1>4, <1>5 DEF NothingTwice, PadsOnce, OnceAmong
  <2>6. \A k \in 1 .. Len(scenes') : OneSourceEach(scenes'[k])
    <3>1. /\ Len(scenes) \in Nat /\ Len(scenes') = Len(scenes) + 1
          /\ \A k \in 1 .. Len(scenes) : scenes'[k] = scenes[k]
          /\ scenes'[Len(scenes) + 1] = Batch
      BY <2>1, <1>2, AppendElements DEF Message
    <3>2. \A k \in 1 .. Len(scenes') : k \in 1 .. Len(scenes) \/ k = Len(scenes) + 1
      BY <3>1
    <3> QED  BY <3>1, <3>2, <2>5 DEF NothingTwice, ScenesOnce
  <2>7. ScenesOnce'
    BY <2>4, <2>6 DEF ScenesOnce
  <2>8. EachLocated'
    <3>1. Move(B, "pads", "scenes")
      BY <1>1, <1>2, <1>6, <1>8, <2>1, <2>4, PlaceKept DEF Move, IsAt
    <3>2. B \in SUBSET Slot /\ "pads" \in Place /\ "scenes" \in Place
      BY <1>2 DEF Place
    <3> HIDE DEF B
    <3> QED  BY <3>1, <3>2, <1>1, MoveKeeps
  <2>9. NothingTwice'
    BY <1>1, <1>7, <2>7, PlaceKept DEF NothingTwice
  <2> QED  BY <1>9, <2>8, <2>9
<1>11. CASE "scene_update" \notin connected
  <2>1. lost' = lost \cup B /\ UNCHANGED scenes
    BY <1>11, BatchFacts DEF PublishScene, Batch, Ready
  <2>2. EachLocated'
    <3>1. Move(B, "pads", "lost")
      BY <1>1, <1>2, <1>6, <1>8, <2>1, PlaceKept DEF Move, IsAt
    <3>2. B \in SUBSET Slot /\ "pads" \in Place /\ "lost" \in Place
      BY <1>2 DEF Place
    <3> HIDE DEF B
    <3> QED  BY <3>1, <3>2, <1>1, MoveKeeps
  <2>3. NothingTwice'
    BY <1>1, <1>7, <2>1, PlaceKept DEF NothingTwice
  <2> QED  BY <1>9, <2>2, <2>3
<1> QED  BY <1>10, <1>11

(* OnFrameDonePayload takes a message, and applies its entries. *)
LEMMA FrameDoneConserves ==
  ASSUME IInv, OnFrameDone
  PROVE  Conserved'
<1> USE DEF IInv, Conserved, RelayTypeOK
<1> DEFINE B == Head(frameDone)
<1>1. /\ UNCHANGED <<slots, pc, held, queueAgg, pads, scenes, scene, vqaSources, relay, mapped, releases, lost>>
      /\ frameDone \in Seq(SUBSET Slot) /\ frameDone # <<>> /\ frameDone' = Tail(frameDone)
      /\ releasing = {} /\ releasing' = B
  BY DEF producerVars, ruleVars, OnFrameDone, aggVars
<1>2. B \subseteq Slot
  BY <1>1, TailElements
<1>3. ASSUME NEW i \in Slot
      PROVE  /\ i \in B => InSets(frameDone, i)
             /\ InSets(frameDone', i) <=> InSets(frameDone, i) /\ i \notin B
             /\ OnceInSets(frameDone', i)
  BY <1>1, InSetsTail DEF NothingTwice, FrameDoneOnce
<1>4. Move(B, "frame_done", "releasing")
  BY <1>1, <1>2, <1>3, PlaceKept DEF Move, IsAt
<1>5. EachLocated' /\ HoldersAgree'
  <2>1. B \in SUBSET Slot /\ "frame_done" \in Place /\ "releasing" \in Place
    BY <1>2 DEF Place
  <2> HIDE DEF B
  <2> QED  BY <2>1, <1>1, <1>4, MoveKeeps, HoldersKept
<1>6. NothingTwice'
  <2>1. FrameDoneOnce'
    BY <1>3 DEF FrameDoneOnce
  <2> QED  BY <2>1, <1>1, PlaceKept DEF NothingTwice
<1> QED  BY <1>5, <1>6

LEMMA ReleaseEntryConserves ==
  ASSUME IInv, ReleaseEntry
  PROVE  Conserved'
<1> USE DEF IInv, Conserved, RelayTypeOK
<1>1. PICK h \in releasing : slots' = Released(h) /\ releasing' = releasing \ {h}
  BY DEF ReleaseEntry, ReleaseSlotDirect
<1>2. UNCHANGED <<pc, held, queueAgg, pads, scenes, scene, vqaSources, relay, frameDone, mapped, releases, lost>>
  BY DEF ReleaseEntry, ruleVars, aggVars
<1>3. Leave(h, "releasing")
  BY <1>1, <1>2, PlaceKept DEF Leave, IsAt
<1>4. EachLocated' /\ HoldersAgree'
  <2>1. "releasing" \in Place /\ h \in Slot
    BY DEF Place
  <2> QED  BY <2>1, <1>2, <1>3, LeaveKeeps, HoldersKept
<1>5. NothingTwice'
  BY <1>2, PlaceKept DEF NothingTwice
<1> QED  BY <1>4, <1>5

-----------------------------------------------------------------------------
(* rule_process: OnScene takes a message; what its sources hold does not   *)
(* change until they are relayed or listed in the frame_done message.      *)
LEMMA OnSceneConserves ==
  ASSUME IInv, OnScene
  PROVE  Conserved'
<1> USE DEF IInv, Conserved, RelayTypeOK
<1> DEFINE m == Head(scenes)
           B == SlotsOf(m)
           q == SlotSets(scenes)
<1>1. /\ UNCHANGED <<slots, pc, held, queueAgg, pads, relay, frameDone, releasing, mapped, releases, lost>>
      /\ scenes \in Seq(Message) /\ scenes # <<>> /\ scenes' = Tail(scenes)
      /\ scene = NoScene /\ scene' = m
      /\ vqaSources = {} /\ vqaSources' = {}
  BY NoSceneFacts DEF producerVars, OnScene, Message, aggVars
<1>2. /\ B \subseteq Slot
      /\ Len(scenes) \in Nat \ {0} /\ m = scenes[1] /\ Len(scenes') = Len(scenes) - 1
      /\ \A k \in 1 .. Len(scenes) - 1 : scenes'[k] = scenes[k + 1]
  BY <1>1, TailElements, SceneFacts DEF Message
<1>3. q \in Seq(SUBSET Slot) /\ q # <<>> /\ Head(q) = B /\ SlotSets(scenes') = Tail(q)
  BY <1>1, SlotSetsElements, SlotSetsTail
<1>4. ASSUME NEW i \in Slot
      PROVE  /\ i \in B => InScenes(i)
             /\ (InScenes(i))' <=> InScenes(i) /\ i \notin B
             /\ OnceInSets(SlotSets(scenes'), i)
  <2>1. OnceInSets(q, i)
    BY DEF NothingTwice, ScenesOnce
  <2> HIDE DEF q
  <2>2. /\ i \in Head(q) => InSets(q, i)
        /\ InSets(Tail(q), i) <=> InSets(q, i) /\ i \notin Head(q)
        /\ OnceInSets(Tail(q), i)
    BY <2>1, <1>3, InSetsTail
  <2> QED  BY <2>2, <1>3 DEF InScenes, q
<1>5. \A i : ~ InRule(i) /\ ((InRule(i))' <=> i \in B)
  BY <1>1, NoSceneFacts DEF InRule, SlotsOf
<1>6. Move(B, "scenes", "rule")
  <2> HIDE DEF B, m, q, IInv, RelayTypeOK
  <2>1. \A i \in B : IsAt("scenes", i)
    BY <1>2, <1>4 DEF IsAt
  <2>2. ASSUME NEW i \in Slot, NEW r \in Place
        PROVE  (IsAt(r, i))' <=> IF i \in B THEN r = "rule" \/ (r # "scenes" /\ IsAt(r, i)) ELSE IsAt(r, i)
    BY <1>1, <1>4, <1>5, PlaceKept DEF IsAt
  <2> QED  BY <2>1, <2>2 DEF Move
<1>7. EachLocated' /\ HoldersAgree'
  <2>1. B \in SUBSET Slot /\ "scenes" \in Place /\ "rule" \in Place
    BY <1>2 DEF Place
  <2> HIDE DEF B
  <2> QED  BY <2>1, <1>1, <1>6, MoveKeeps, HoldersKept
<1>8. ScenesOnce' /\ RuleOnce'
  <2>1. \A k \in 1 .. Len(scenes) - 1 : k + 1 \in 1 .. Len(scenes)
    BY <1>2
  <2>2. 1 \in 1 .. Len(scenes)
    BY <1>2
  <2> QED  BY <2>1, <2>2, <1>1, <1>2, <1>4 DEF NothingTwice, ScenesOnce, RuleOnce
<1>9. NothingTwice'
  BY <1>1, <1>8, PlaceKept DEF NothingTwice
<1> QED  BY <1>7, <1>9

(* A source that is not relayed, main()'s connect, and the end of the      *)
(* worker, move nothing.                                                   *)
LEMMA QuietConserves ==
  ASSUME IInv,
         RelayConnected \/ EndOfStream \/ PipelineError \/ \E c \in Channels : NotRelayed(c) \/ RelayFailed(c)
  PROVE  Conserved'
<1>1. UNCHANGED <<slots, pc, held, queueAgg, pads, scenes, scene, vqaSources, relay, frameDone, releasing, mapped,
                  releases, lost>>
  BY DEF producerVars, ruleVars, RelayConnected, EndOfStream, PipelineError, NotRelayed,
         RelayFailed, aggVars
<1>2. EachLocated' /\ NothingTwice'
  BY <1>1, PlacesKept DEF IInv, Conserved
<1>3. HoldersAgree'
  BY <1>1, HoldersKept DEF IInv, Conserved
<1> QED  BY <1>2, <1>3 DEF Conserved

(* The packet of a relayed source takes its slot to the consumer. *)
LEMMA RelayConserves ==
  ASSUME IInv, NEW c \in Channels, RelaySent(c)
  PROVE  Conserved'
<1> USE DEF IInv, Conserved, RelayTypeOK
<1> DEFINE h == scene[c]
<1>1. /\ UNCHANGED <<slots, pc, held, queueAgg, pads, scenes, scene, frameDone, releasing, mapped, releases, lost>>
      /\ relay \in Seq(Slot) /\ relay' = Append(relay, h)
      /\ c \in DOMAIN scene \ vqaSources /\ vqaSources' = vqaSources \cup {c}
  BY DEF producerVars, RelaySent, aggVars
<1>2. h \in Slot
  BY <1>1, SceneFacts
<1>3. "rule" \in Place /\ "relay" \in Place /\ {h} \in SUBSET Slot
  BY <1>2 DEF Place
<1>4. IsAt("rule", h)
  BY <1>1 DEF IsAt, InRule
<1>5. ~ InSeq(relay, h)
  BY <1>2, <1>3, <1>4, LocatedOnly DEF EachLocated, OnlyAt, IsAt
<1>6. ASSUME NEW i \in Slot
      PROVE  /\ InSeq(relay', i) <=> InSeq(relay, i) \/ i = h
             /\ OnceIn(relay', i)
  BY <1>1, <1>2, <1>5, InAppend DEF NothingTwice, RelayOnce
<1>7. \A i \in Slot : (InRule(i))' <=> InRule(i) /\ i # h
  BY <1>1 DEF InRule, NothingTwice, RuleOnce, OneSourceEach
<1>8. Move({h}, "rule", "relay")
  BY <1>1, <1>2, <1>4, <1>6, <1>7, PlaceKept DEF Move, IsAt
<1>9. EachLocated' /\ HoldersAgree'
  BY <1>1, <1>3, <1>8, MoveKeeps, HoldersKept
<1>10. NothingTwice'
  <2>1. RelayOnce'
    BY <1>6 DEF RelayOnce
  <2> QED  BY <2>1, <1>1, PlaceKept DEF NothingTwice
<1> QED  BY <1>9, <1>10

(* The end of a scene: what was not relayed is in the frame_done message,  *)
(* or lost with it.                                                        *)
LEMMA EndSceneConserves ==
  ASSUME IInv, PublishFrameDone \/ PublishFailed
  PROVE  Conserved'
<1> USE DEF IInv, Conserved, RelayTypeOK
<1> DEFINE B == ReleaseEntries
<1>1. /\ UNCHANGED <<slots, pc, held, queueAgg, pads, scenes, relay, releasing, mapped, releases>>
      /\ frameDone \in Seq(SUBSET Slot)
      /\ scene' = NoScene /\ B \in SUBSET Slot
  BY ReleaseEntriesFacts DEF producerVars, PublishFrameDone, PublishFailed, EndScene, aggVars
<1>2. \A i : (InRule(i) <=> i \in B) /\ ~ (InRule(i))'
  BY <1>1, NoSceneFacts DEF InRule, ReleaseEntries
<1>3. HoldersAgree'
  BY <1>1, HoldersKept
<1>4. RuleOnce'
  BY <1>1, NoSceneFacts DEF RuleOnce, OneSourceEach
<1>5. "rule" \in Place /\ "frame_done" \in Place /\ "lost" \in Place
  BY DEF Place
<1>6. \A i \in B : IsAt("rule", i)
  BY <1>2 DEF IsAt
<1>7. CASE PublishFrameDone
  <2>1. /\ UNCHANGED lost
        /\ frameDone' = IF B = {} THEN frameDone ELSE Append(frameDone, B)
    BY <1>7 DEF PublishFrameDone
  <2>2. \A i \in B : ~ InSets(frameDone, i)
    BY <1>1, <1>5, <1>6, LocatedOnly DEF EachLocated, OnlyAt, IsAt
  <2> HIDE DEF B
  <2>3. ASSUME NEW i \in Slot
        PROVE  /\ InSets(frameDone', i) <=> InSets(frameDone, i) \/ i \in B
               /\ OnceInSets(frameDone', i)
    <3>1. OnceInSets(frameDone, i)
      BY DEF NothingTwice, FrameDoneOnce
    <3>2. CASE B = {}
      BY <3>1, <3>2, <2>1
    <3>3. CASE B # {}
      <4> HIDE DEF IInv
      <4>1. /\ InSets(Append(frameDone, B), i) <=> InSets(frameDone, i) \/ i \in B
            /\ OnceInSets(frameDone, i) /\ ~ (i \in B /\ InSets(frameDone, i)) =>
                 OnceInSets(Append(frameDone, B), i)
        BY <1>1, InSetsAppend
      <4> QED  BY <4>1, <3>1, <3>3, <2>1, <2>2
    <3> QED  BY <3>2, <3>3
  <2>4. Move(B, "rule", "frame_done")
    BY <1>1, <1>2, <1>6, <2>1, <2>3, PlaceKept DEF Move, IsAt
  <2>5. EachLocated'
    BY <1>1, <1>5, <2>4, MoveKeeps
  <2>6. FrameDoneOnce'
    BY <2>3 DEF FrameDoneOnce
  <2>7. NothingTwice'
    BY <1>1, <1>4, <2>6, PlaceKept DEF NothingTwice
  <2> QED  BY <1>3, <2>5, <2>7
<1>8. CASE PublishFailed
  <2>1. lost' = lost \cup B /\ UNCHANGED frameDone
    BY <1>8 DEF PublishFailed
  <2> HIDE DEF B
  <2>2. Move(B, "rule", "lost")
    BY <1>1, <1>2, <1>6, <2>1, PlaceKept DEF Move, IsAt
  <2>3. EachLocated'
    BY <1>1, <1>5, <2>2, MoveKeeps
  <2>4. NothingTwice'
    BY <1>1, <1>4, <2>1, PlaceKept DEF NothingTwice
  <2> QED  BY <1>3, <2>3, <2>4
<1> QED  BY <1>7, <1>8

-----------------------------------------------------------------------------
(* The consumer maps the slot of the oldest packet, *)
LEMMA MapConserves ==
  ASSUME IInv, MapRelayed
  PROVE  Conserved'
<1> USE DEF IInv, Conserved, RelayTypeOK
<1> DEFINE h == Head(relay)
<1>1. /\ UNCHANGED <<slots, pc, held, queueAgg, pads, scenes, scene, vqaSources, frameDone, releasing, releases, lost>>
      /\ relay \in Seq(Slot) /\ relay # <<>> /\ relay' = Tail(relay)
      /\ mapped = NoSlot /\ mapped' = h
  BY DEF producerVars, ruleVars, MapRelayed, MapFrame, aggVars
<1>2. h \in Slot /\ mapped \notin Slot
  BY <1>1, TailElements, SlotFacts
<1>3. ASSUME NEW i \in Slot
      PROVE  /\ InSeq(relay, h)
             /\ InSeq(relay', i) <=> InSeq(relay, i) /\ i # h
             /\ OnceIn(relay', i)
  BY <1>1, InTail DEF NothingTwice, RelayOnce
<1>4. Move({h}, "relay", "mapped")
  BY <1>1, <1>2, <1>3, PlaceKept DEF Move, IsAt
<1>5. EachLocated' /\ HoldersAgree'
  <2>1. {h} \in SUBSET Slot /\ "relay" \in Place /\ "mapped" \in Place
    BY <1>2 DEF Place
  <2> QED  BY <2>1, <1>1, <1>4, MoveKeeps, HoldersKept
<1>6. NothingTwice'
  <2>1. RelayOnce'
    BY <1>3 DEF RelayOnce
  <2> QED  BY <2>1, <1>1, PlaceKept DEF NothingTwice
<1> QED  BY <1>5, <1>6

(* and releases it over the producer's socket. *)
LEMMA ReleaseConserves ==
  ASSUME IInv, ReleaseMapped
  PROVE  Conserved'
<1> USE DEF IInv, Conserved, RelayTypeOK, ProducerTypeOK, ConsumerTypeOK
<1> DEFINE h == mapped
<1>1. /\ UNCHANGED <<slots, pc, held, queueAgg, pads, scenes, scene, vqaSources, relay, frameDone, releasing, lost>>
      /\ releases \in Seq(Slot) /\ releases' = Append(releases, h)
      /\ h \in Slot /\ mapped' = NoSlot
  BY DEF pipeVars, ruleVars, ReleaseMapped, ReleaseFrame, aggVars
<1>2. "mapped" \in Place /\ "releases" \in Place /\ {h} \in SUBSET Slot
  BY <1>1 DEF Place
<1>3. IsAt("mapped", h)
  BY DEF IsAt
<1>4. ~ InSeq(releases, h)
  BY <1>1, <1>2, <1>3, LocatedOnly DEF EachLocated, OnlyAt, IsAt
<1>5. ASSUME NEW i \in Slot
      PROVE  /\ InSeq(releases', i) <=> InSeq(releases, i) \/ i = h
             /\ OnceIn(releases', i)
  BY <1>1, <1>4, InAppend DEF NothingTwice, ReleasesOnce
<1>6. mapped' \notin Slot
  BY <1>1, SlotFacts
<1>7. Move({h}, "mapped", "releases")
  BY <1>1, <1>3, <1>5, <1>6, PlaceKept DEF Move, IsAt
<1>8. EachLocated' /\ HoldersAgree'
  BY <1>1, <1>2, <1>7, MoveKeeps, HoldersKept
<1>9. NothingTwice'
  <2>1. ReleasesOnce'
    BY <1>5 DEF ReleasesOnce
  <2> QED  BY <2>1, <1>1, PlaceKept DEF NothingTwice
<1> QED  BY <1>8, <1>9

(* When it ends, the slots of the packets and of the frame it was reading  *)
(* are lost.                                                               *)
LEMMA ExitConserves ==
  ASSUME IInv, ConsumerExit
  PROVE  Conserved'
<1> USE DEF IInv, Conserved, RelayTypeOK, ProducerTypeOK, ConsumerTypeOK
<1>1. /\ UNCHANGED <<slots, pc, held, queueAgg, pads, scenes, scene, vqaSources, frameDone, releasing, releases>>
      /\ relay' = <<>> /\ mapped' = NoSlot
      /\ lost' = lost \cup {relay[k] : k \in 1 .. Len(relay)} \cup ({mapped} \ {NoSlot})
  BY DEF ruleVars, ConsumerExit, CloseConsumer, aggVars
<1>2. ASSUME NEW i \in Slot
      PROVE  /\ ~ InSeq(relay', i) /\ OnceIn(relay', i) /\ mapped' # i
             /\ i \in lost' <=> i \in lost \/ InSeq(relay, i) \/ mapped = i
  BY <1>1, SlotFacts DEF InSeq, OnceIn
<1>3. ASSUME NEW i \in Slot PROVE (Located(i))'
  <2>1. \A r \in Place : (IsAt(r, i))' <=>
          \/ IsAt(r, i) /\ r \notin {"relay", "mapped"}
          \/ r = "lost" /\ (InSeq(relay, i) \/ mapped = i)
    BY <1>1, <1>2, PlaceKept DEF IsAt
  <2>2. ASSUME NEW p \in {"relay", "mapped"}, IsAt(p, i) PROVE (Located(i))'
    <3>1. slots[i] = "ON_FLIGHT" /\ OnlyAt(p, i)
      BY <2>2, LocatedOnly DEF EachLocated, Place
    <3>2. InSeq(relay, i) \/ mapped = i
      BY <2>2 DEF IsAt
    <3>3. (OnlyAt("lost", i))'
      BY <2>1, <2>2, <3>1, <3>2 DEF OnlyAt
    <3> QED  BY <3>1, <3>3, <1>1 DEF Located, Place
  <2>3. CASE InSeq(relay, i) \/ mapped = i
    BY <2>2, <2>3 DEF IsAt
  <2>4. CASE ~ (InSeq(relay, i) \/ mapped = i)
    <3>1. \A r \in Place : (IsAt(r, i))' <=> IsAt(r, i)
      BY <2>1, <2>4 DEF IsAt
    <3> QED  BY <3>1, <1>1, LocatedKept DEF EachLocated
  <2> QED  BY <2>3, <2>4
<1>4. HoldersAgree'
  BY <1>1, HoldersKept
<1>5. NothingTwice'
  <2>1. RelayOnce'
    BY <1>2 DEF RelayOnce
  <2> QED  BY <2>1, <1>1, PlaceKept DEF NothingTwice
<1> QED  BY <1>3, <1>4, <1>5 DEF EachLocated

-----------------------------------------------------------------------------
(* A connection is lost: what was not received yet is cut off the queue. *)
LEMMA ScenesLostConserves ==
  ASSUME IInv, LoseScenes,
         UNCHANGED <<slots, pc, held, queueAgg, pads, scene, vqaSources, relay, releasing, mapped, releases>>
  PROVE  Conserved'
<1> USE DEF IInv, Conserved, RelayTypeOK
<1> DEFINE q == SlotSets(scenes)
<1>1. PICK n \in 0 .. Len(scenes) :
        /\ scenes' = SubSeq(scenes, 1, n)
        /\ lost' = lost \cup (UNION {SlotsOf(scenes[j]) : j \in n + 1 .. Len(scenes)})
        /\ UNCHANGED frameDone
  BY DEF LoseScenes
<1> DEFINE B == UNION {q[j] : j \in n + 1 .. Len(q)}
<1>2. /\ scenes \in Seq(Message) /\ q \in Seq(SUBSET Slot) /\ Len(q) = Len(scenes)
      /\ \A k \in 1 .. Len(scenes) : q[k] = SlotsOf(scenes[k])
      /\ n \in 0 .. Len(q) /\ SlotSets(scenes') = SubSeq(q, 1, n)
      /\ Len(scenes') = n /\ \A k \in 1 .. n : scenes'[k] = scenes[k]
  BY <1>1, SlotSetsElements, SlotSetsPrefix DEF Message
<1>3. \A j \in n + 1 .. Len(q) : j \in 1 .. Len(q) /\ q[j] \subseteq Slot
  <2> HIDE DEF q
  <2>1. \A j \in n + 1 .. Len(q) : j \in 1 .. Len(q)
    BY <1>2
  <2> QED  BY <2>1, <1>2
<1>4. lost' = lost \cup B
  BY <1>1, <1>2, <1>3
<1> HIDE DEF q
<1>5. B \in SUBSET Slot
  BY <1>3
<1>6. ASSUME NEW i \in Slot
      PROVE  /\ i \in B => InScenes(i)
             /\ (InScenes(i))' <=> InScenes(i) /\ i \notin B
             /\ OnceInSets(SlotSets(scenes'), i)
  <2>1. OnceInSets(q, i)
    BY DEF NothingTwice, ScenesOnce, q
  <2>2. /\ InSets(SubSeq(q, 1, n), i) <=> InSets(q, i) /\ \A k \in n + 1 .. Len(q) : i \notin q[k]
        /\ OnceInSets(SubSeq(q, 1, n), i)
    BY <2>1, <1>2, InSetsPrefix
  <2>3. i \in B <=> \E k \in n + 1 .. Len(q) : i \in q[k]
    OBVIOUS
  <2>4. i \in B => InSets(q, i)
    BY <2>3, <1>3 DEF InSets
  <2>5. (InScenes(i) <=> InSets(q, i)) /\ ((InScenes(i))' <=> InSets(SubSeq(q, 1, n), i))
    BY <1>2 DEF InScenes, q
  <2> HIDE DEF B
  <2> QED  BY <2>2, <2>3, <2>4, <2>5, <1>2
<1> HIDE DEF B
<1>7. Move(B, "scenes", "lost")
  <2>1. \A i \in B : IsAt("scenes", i)
    BY <1>5, <1>6 DEF IsAt
  <2>2. ASSUME NEW i \in Slot, NEW r \in Place
        PROVE  (IsAt(r, i))' <=> IF i \in B THEN r = "lost" \/ (r # "scenes" /\ IsAt(r, i)) ELSE IsAt(r, i)
    BY <1>1, <1>4, <1>6, PlaceKept DEF IsAt
  <2> QED  BY <2>1, <2>2 DEF Move
<1>8. EachLocated' /\ HoldersAgree'
  <2>1. "scenes" \in Place /\ "lost" \in Place
    BY DEF Place
  <2> QED  BY <2>1, <1>5, <1>7, MoveKeeps, HoldersKept
<1>9. ScenesOnce'
  <2>1. \A k \in 1 .. n : k \in 1 .. Len(scenes)
    BY <1>2
  <2> QED  BY <2>1, <1>2, <1>6 DEF NothingTwice, ScenesOnce
<1>10. NothingTwice'
  BY <1>1, <1>9, PlaceKept DEF NothingTwice
<1> QED  BY <1>8, <1>10

LEMMA FrameDonesLostConserves ==
  ASSUME IInv, LoseFrameDones,
         UNCHANGED <<slots, pc, held, queueAgg, pads, scene, vqaSources, relay, releasing, mapped, releases>>
  PROVE  Conserved'
<1> USE DEF IInv, Conserved, RelayTypeOK
<1>1. PICK n \in 0 .. Len(frameDone) :
        /\ frameDone' = SubSeq(frameDone, 1, n)
        /\ lost' = lost \cup (UNION {frameDone[j] : j \in n + 1 .. Len(frameDone)})
        /\ UNCHANGED scenes
  BY DEF LoseFrameDones
<1> DEFINE B == UNION {frameDone[j] : j \in n + 1 .. Len(frameDone)}
<1>2. \A j \in n + 1 .. Len(frameDone) : j \in 1 .. Len(frameDone) /\ frameDone[j] \subseteq Slot
  <2>1. \A j \in n + 1 .. Len(frameDone) : j \in 1 .. Len(frameDone)
    OBVIOUS
  <2> QED  BY <2>1
<1>3. B \in SUBSET Slot
  BY <1>2
<1>4. ASSUME NEW i \in Slot
      PROVE  /\ i \in B => InSets(frameDone, i)
             /\ InSets(frameDone', i) <=> InSets(frameDone, i) /\ i \notin B
             /\ OnceInSets(frameDone', i)
  <2>1. OnceInSets(frameDone, i)
    BY DEF NothingTwice, FrameDoneOnce
  <2>2. /\ InSets(frameDone', i) <=>
             InSets(frameDone, i) /\ \A k \in n + 1 .. Len(frameDone) : i \notin frameDone[k]
        /\ OnceInSets(frameDone', i)
    BY <2>1, <1>1, InSetsPrefix
  <2>3. i \in B <=> \E k \in n + 1 .. Len(frameDone) : i \in frameDone[k]
    OBVIOUS
  <2>4. i \in B => InSets(frameDone, i)
    BY <2>3, <1>2 DEF InSets
  <2> HIDE DEF B
  <2> QED  BY <2>2, <2>3, <2>4
<1>5. lost' = lost \cup B
  BY <1>1
<1> HIDE DEF B
<1>6. Move(B, "frame_done", "lost")
  <2>1. \A i \in B : IsAt("frame_done", i)
    BY <1>3, <1>4 DEF IsAt
  <2>2. ASSUME NEW i \in Slot, NEW r \in Place
        PROVE  (IsAt(r, i))' <=> IF i \in B THEN r = "lost" \/ (r # "frame_done" /\ IsAt(r, i)) ELSE IsAt(r, i)
    BY <1>1, <1>4, <1>5, PlaceKept DEF IsAt
  <2> QED  BY <2>1, <2>2 DEF Move
<1>7. EachLocated' /\ HoldersAgree'
  <2>1. "frame_done" \in Place /\ "lost" \in Place
    BY DEF Place
  <2> QED  BY <2>1, <1>3, <1>6, MoveKeeps, HoldersKept
<1>8. FrameDoneOnce'
  BY <1>4 DEF FrameDoneOnce
<1>9. NothingTwice'
  BY <1>1, <1>8, PlaceKept DEF NothingTwice
<1> QED  BY <1>7, <1>9

-----------------------------------------------------------------------------

LEMMA ConservedInductive == IInv /\ [Next]_vars => Conserved'
<1> SUFFICES ASSUME IInv, [Next]_vars PROVE Conserved'
  OBVIOUS
<1>1. ASSUME NEW c \in Channels, OffloadStep(c) PROVE Conserved'
  BY <1>1, SubmitFrameConserves, PollConserves, PushConserves DEF OffloadStep
<1>13. ASSUME NEW c \in Channels, ForwardFrame(c) PROVE Conserved'
  BY <1>13, ForwardConserves
<1>14. CASE EndOfStream \/ PipelineError
  BY <1>14, QuietConserves
<1>2. CASE PublishScene
  BY <1>2, PublishConserves
<1>3. CASE OnFrameDone
  BY <1>3, FrameDoneConserves
<1>4. CASE ReleaseEntry
  BY <1>4, ReleaseEntryConserves
<1>5. CASE RelayConnected
  BY <1>5, QuietConserves
<1>6. CASE RuleStep
  BY <1>6, OnSceneConserves, QuietConserves, RelayConserves, EndSceneConserves DEF RuleStep
<1>7. CASE PublishFailed
  BY <1>7, EndSceneConserves
<1>8. CASE MapRelayed
  BY <1>8, MapConserves
<1>9. CASE ReleaseMapped
  BY <1>9, ReleaseConserves
<1>10. CASE ConsumerExit
  BY <1>10, ExitConserves
<1>11. CASE ConnectionLost
  BY <1>11, ScenesLostConserves, FrameDonesLostConserves DEF ConnectionLost, producerVars, ruleVars, aggVars
<1>12. CASE UNCHANGED vars
  <2>1. UNCHANGED <<slots, pc, held, queueAgg, pads, scenes, scene, vqaSources, relay, frameDone, releasing, mapped,
                    releases, lost>>
    BY <1>12 DEF vars, producerVars, pipeVars, ruleVars, aggVars
  <2> QED  BY <2>1, PlacesKept, HoldersKept DEF IInv, Conserved
<1> QED  BY <1>1, <1>2, <1>3, <1>4, <1>5, <1>6, <1>7, <1>8, <1>9, <1>10, <1>11, <1>12,
         <1>13, <1>14 DEF Next

LEMMA InitConserved == Init => Conserved
<1> SUFFICES ASSUME Init PROVE Conserved
  OBVIOUS
<1> USE DEF Init, ProducerInit, ConsumerInit, SlotPoolInit
<1>1. HoldersAgree
  BY DEF HoldersAgree, Holding
<1>2. \A i \in Slot : slots[i] = "IDLE" /\ mapped # i
  BY SlotFacts
<1>3. \A i : ~ InQueue(i) /\ ~ InPads(i) /\ ~ InSeq(relay, i) /\ ~ InSets(frameDone, i) /\ ~ InSeq(releases, i)
  BY DEF InQueue, InPads, Somewhere, InSeq, InSets
<1>4. \A i : ~ InScenes(i) /\ ~ InRule(i)
  BY NoSceneFacts DEF InScenes, InSets, InRule, SlotSets
<1>5. EachLocated
  BY <1>2, <1>3, <1>4 DEF EachLocated, Located, Nowhere, IsAt
<1>6. QueueOnce /\ PadsOnce /\ RelayOnce /\ FrameDoneOnce /\ ReleasesOnce
  BY DEF QueueOnce, PadsOnce, OnceAmong, RelayOnce, FrameDoneOnce, ReleasesOnce, InSeq, OnceIn, OnceInSets
<1>7. ScenesOnce /\ RuleOnce
  BY NoSceneFacts DEF ScenesOnce, RuleOnce, OneSourceEach, OnceInSets, SlotSets
<1> QED  BY <1>1, <1>5, <1>6, <1>7 DEF Conserved, NothingTwice

LEMMA InvAlways == Spec => []IInv
<1>1. Init => IInv
  BY InitType, InitConserved DEF IInv
<1>2. IInv /\ [Next]_vars => IInv'
  BY TypeInductive, ConservedInductive DEF IInv
<1> QED  BY <1>1, <1>2, PTL DEF Spec

-----------------------------------------------------------------------------
(* From places back to references: those of a place are none or one, those *)
(* of the lost slots none.                                                 *)

QueueRefs(i) == UNION {At(<<"queue_agg", c>>, queueAgg[c], i) : c \in Channels}

PadRefs(i) == UNION {At(c, pads[c], i) : c \in Channels}

SceneAt(k, i) == {<<"scene", k, c>> : c \in {d \in DOMAIN scenes[k] : scenes[k][d] = i}}

SceneRefs(i) == UNION {SceneAt(k, i) : k \in 1 .. Len(scenes)}

RuleRefs(i) == {<<"rule", c>> : c \in {d \in DOMAIN scene \ vqaSources : scene[d] = i}}

FrameDoneRefs(i) == {<<"frame_done", k>> : k \in {j \in 1 .. Len(frameDone) : i \in frameDone[j]}}

ReferencesAt(p, i) ==
  CASE p = "queue" -> QueueRefs(i)
    [] p = "pads" -> PadRefs(i)
    [] p = "scenes" -> SceneRefs(i)
    [] p = "rule" -> RuleRefs(i)
    [] p = "relay" -> At("relay", relay, i)
    [] p = "frame_done" -> FrameDoneRefs(i)
    [] p = "releasing" -> IF i \in releasing THEN {<<"releasing">>} ELSE {}
    [] p = "mapped" -> IF mapped = i THEN {<<"mapped">>} ELSE {}
    [] p = "releases" -> At("release", releases, i)
    [] p = "lost" -> {}

AtMost(refs, there) ==
  /\ there => \E r : refs = {r}
  /\ ~ there => refs = {}

LEMMA QueueReferences ==
  ASSUME NEW name, NEW q, NEW i, OnceIn(q, i)
  PROVE  AtMost(At(name, q, i), InSeq(q, i))
<1>1. ASSUME InSeq(q, i) PROVE \E r : At(name, q, i) = {r}
  <2>1. PICK k \in 1 .. Len(q) : q[k] = i
    BY <1>1 DEF InSeq
  <2>2. {j \in 1 .. Len(q) : q[j] = i} = {k}
    BY <2>1 DEF OnceIn
  <2>3. At(name, q, i) = {<<name, k>>}
    BY <2>2 DEF At
  <2> QED  BY <2>3
<1>2. ASSUME ~ InSeq(q, i) PROVE At(name, q, i) = {}
  BY <1>2 DEF InSeq, At
<1> QED  BY <1>1, <1>2 DEF AtMost

LEMMA PadReferences ==
  ASSUME PadsOnce, NEW i \in Slot
  PROVE  AtMost(PadRefs(i), InPads(i))
<1>1. \A c \in Channels : AtMost(At(c, pads[c], i), InSeq(pads[c], i))
  BY QueueReferences DEF PadsOnce, OnceAmong
<1>2. ASSUME InPads(i) PROVE \E r : PadRefs(i) = {r}
  <2>1. PICK c \in Channels : InSeq(pads[c], i)
    BY <1>2 DEF InPads, Somewhere
  <2>2. PICK r : At(c, pads[c], i) = {r}
    BY <2>1, <1>1 DEF AtMost
  <2>3. \A d \in Channels : d # c => At(d, pads[d], i) = {}
    BY <2>1, <1>1 DEF AtMost, PadsOnce, OnceAmong
  <2>4. PadRefs(i) = {r}
    BY <2>2, <2>3 DEF PadRefs
  <2> QED  BY <2>4
<1>3. ASSUME ~ InPads(i) PROVE PadRefs(i) = {}
  <2>1. \A c \in Channels : At(c, pads[c], i) = {}
    BY <1>1, <1>3 DEF AtMost, InPads, Somewhere
  <2> QED  BY <2>1 DEF PadRefs
<1> QED  BY <1>2, <1>3 DEF AtMost

LEMMA QueueAggReferences ==
  ASSUME QueueOnce, NEW i \in Slot
  PROVE  AtMost(QueueRefs(i), InQueue(i))
<1>1. \A c \in Channels : AtMost(At(<<"queue_agg", c>>, queueAgg[c], i), InSeq(queueAgg[c], i))
  BY QueueReferences DEF QueueOnce, OnceAmong
<1>2. ASSUME InQueue(i) PROVE \E r : QueueRefs(i) = {r}
  <2>1. PICK c \in Channels : InSeq(queueAgg[c], i)
    BY <1>2 DEF InQueue, Somewhere
  <2>2. PICK r : At(<<"queue_agg", c>>, queueAgg[c], i) = {r}
    BY <2>1, <1>1 DEF AtMost
  <2>3. \A d \in Channels : d # c => At(<<"queue_agg", d>>, queueAgg[d], i) = {}
    BY <2>1, <1>1 DEF AtMost, QueueOnce, OnceAmong
  <2>4. QueueRefs(i) = {r}
    BY <2>2, <2>3 DEF QueueRefs
  <2> QED  BY <2>4
<1>3. ASSUME ~ InQueue(i) PROVE QueueRefs(i) = {}
  <2>1. \A c \in Channels : At(<<"queue_agg", c>>, queueAgg[c], i) = {}
    BY <1>1, <1>3 DEF AtMost, InQueue, Somewhere
  <2> QED  BY <2>1 DEF QueueRefs
<1> QED  BY <1>2, <1>3 DEF AtMost

LEMMA SceneReferences ==
  ASSUME ScenesOnce, RelayTypeOK, NEW i \in Slot
  PROVE  AtMost(SceneRefs(i), InScenes(i))
<1>1. /\ Len(SlotSets(scenes)) = Len(scenes)
      /\ \A k \in 1 .. Len(scenes) : SlotSets(scenes)[k] = SlotsOf(scenes[k])
  BY SlotSetsElements DEF RelayTypeOK, Message
<1>2. ASSUME NEW k \in 1 .. Len(scenes) PROVE AtMost(SceneAt(k, i), i \in SlotsOf(scenes[k]))
  <2>1. ASSUME i \in SlotsOf(scenes[k]) PROVE \E r : SceneAt(k, i) = {r}
    <3>1. PICK c \in DOMAIN scenes[k] : scenes[k][c] = i
      BY <2>1 DEF SlotsOf
    <3>2. {d \in DOMAIN scenes[k] : scenes[k][d] = i} = {c}
      BY <3>1 DEF ScenesOnce, OneSourceEach
    <3>3. SceneAt(k, i) = {<<"scene", k, c>>}
      BY <3>2 DEF SceneAt
    <3> QED  BY <3>3
  <2>2. ASSUME i \notin SlotsOf(scenes[k]) PROVE SceneAt(k, i) = {}
    BY <2>2 DEF SlotsOf, SceneAt
  <2> QED  BY <2>1, <2>2 DEF AtMost
<1>3. ASSUME InScenes(i) PROVE \E r : SceneRefs(i) = {r}
  <2>1. PICK k \in 1 .. Len(scenes) : i \in SlotsOf(scenes[k])
    BY <1>1, <1>3 DEF InScenes, InSets
  <2>2. PICK r : SceneAt(k, i) = {r}
    BY <2>1, <1>2 DEF AtMost
  <2>3. \A j \in 1 .. Len(scenes) : j # k => i \notin SlotsOf(scenes[j])
    BY <2>1, <1>1 DEF ScenesOnce, OnceInSets
  <2>4. \A j \in 1 .. Len(scenes) : j # k => SceneAt(j, i) = {}
    BY <2>3, <1>2 DEF AtMost
  <2>5. SceneRefs(i) = {r}
    BY <2>2, <2>4 DEF SceneRefs
  <2> QED  BY <2>5
<1>4. ASSUME ~ InScenes(i) PROVE SceneRefs(i) = {}
  <2>1. \A k \in 1 .. Len(scenes) : i \notin SlotsOf(scenes[k])
    BY <1>1, <1>4 DEF InScenes, InSets
  <2>2. \A k \in 1 .. Len(scenes) : SceneAt(k, i) = {}
    BY <2>1, <1>2 DEF AtMost
  <2> QED  BY <2>2 DEF SceneRefs
<1> QED  BY <1>3, <1>4 DEF AtMost

LEMMA RuleReferences ==
  ASSUME RuleOnce, NEW i \in Slot
  PROVE  AtMost(RuleRefs(i), InRule(i))
<1>1. ASSUME InRule(i) PROVE \E r : RuleRefs(i) = {r}
  <2>1. PICK c \in DOMAIN scene \ vqaSources : scene[c] = i
    BY <1>1 DEF InRule
  <2>2. {d \in DOMAIN scene \ vqaSources : scene[d] = i} = {c}
    BY <2>1 DEF RuleOnce, OneSourceEach
  <2>3. RuleRefs(i) = {<<"rule", c>>}
    BY <2>2 DEF RuleRefs
  <2> QED  BY <2>3
<1>2. ASSUME ~ InRule(i) PROVE RuleRefs(i) = {}
  BY <1>2 DEF InRule, RuleRefs
<1> QED  BY <1>1, <1>2 DEF AtMost

LEMMA FrameDoneReferences ==
  ASSUME FrameDoneOnce, NEW i \in Slot
  PROVE  AtMost(FrameDoneRefs(i), InSets(frameDone, i))
<1>1. ASSUME InSets(frameDone, i) PROVE \E r : FrameDoneRefs(i) = {r}
  <2>1. PICK k \in 1 .. Len(frameDone) : i \in frameDone[k]
    BY <1>1 DEF InSets
  <2>2. {j \in 1 .. Len(frameDone) : i \in frameDone[j]} = {k}
    BY <2>1 DEF FrameDoneOnce, OnceInSets
  <2>3. FrameDoneRefs(i) = {<<"frame_done", k>>}
    BY <2>2 DEF FrameDoneRefs
  <2> QED  BY <2>3
<1>2. ASSUME ~ InSets(frameDone, i) PROVE FrameDoneRefs(i) = {}
  BY <1>2 DEF InSets, FrameDoneRefs
<1> QED  BY <1>1, <1>2 DEF AtMost

LEMMA ReferencesByPlace ==
  ASSUME NEW i
  PROVE  References(i) = UNION {ReferencesAt(p, i) : p \in Place}
<1>1. (UNION {ReferencesAt(p, i) : p \in Place})
        = ReferencesAt("queue", i) \cup ReferencesAt("pads", i) \cup ReferencesAt("scenes", i) \cup ReferencesAt("rule", i)
          \cup ReferencesAt("relay", i) \cup ReferencesAt("frame_done", i) \cup ReferencesAt("releasing", i)
          \cup ReferencesAt("mapped", i) \cup ReferencesAt("releases", i) \cup ReferencesAt("lost", i)
  BY DEF Place
<1>2. /\ ReferencesAt("queue", i) = QueueRefs(i)
      /\ ReferencesAt("pads", i) = PadRefs(i)
      /\ ReferencesAt("scenes", i) = SceneRefs(i)
      /\ ReferencesAt("rule", i) = RuleRefs(i)
      /\ ReferencesAt("relay", i) = At("relay", relay, i)
      /\ ReferencesAt("frame_done", i) = FrameDoneRefs(i)
      /\ ReferencesAt("releasing", i) = IF i \in releasing THEN {<<"releasing">>} ELSE {}
      /\ ReferencesAt("mapped", i) = IF mapped = i THEN {<<"mapped">>} ELSE {}
      /\ ReferencesAt("releases", i) = At("release", releases, i)
      /\ ReferencesAt("lost", i) = {}
  BY DEF ReferencesAt
<1>3. References(i)
        = QueueRefs(i) \cup PadRefs(i) \cup SceneRefs(i) \cup RuleRefs(i) \cup At("relay", relay, i) \cup FrameDoneRefs(i)
          \cup (IF i \in releasing THEN {<<"releasing">>} ELSE {})
          \cup (IF mapped = i THEN {<<"mapped">>} ELSE {})
          \cup At("release", releases, i)
  BY Zenon DEF References, QueueRefs, PadRefs, SceneRefs, SceneAt, RuleRefs, FrameDoneRefs
<1> QED  BY <1>1, <1>2, <1>3

LEMMA PlaceReferences ==
  ASSUME IInv, NEW i \in Slot, NEW p \in Place
  PROVE  AtMost(ReferencesAt(p, i), IsAt(p, i) /\ p # "lost")
<1> USE DEF IInv, Conserved, NothingTwice
<1>1. CASE p = "pads"
  BY <1>1, PadReferences DEF ReferencesAt, IsAt, AtMost
<1>2. CASE p = "scenes"
  BY <1>2, SceneReferences DEF ReferencesAt, IsAt, AtMost
<1>3. CASE p = "rule"
  BY <1>3, RuleReferences DEF ReferencesAt, IsAt, AtMost
<1>4. CASE p = "relay"
  BY <1>4, QueueReferences DEF ReferencesAt, IsAt, RelayOnce, AtMost
<1>5. CASE p = "frame_done"
  BY <1>5, FrameDoneReferences DEF ReferencesAt, IsAt, AtMost
<1>6. CASE p = "releases"
  BY <1>6, QueueReferences DEF ReferencesAt, IsAt, ReleasesOnce, AtMost
<1>8. CASE p = "queue"
  BY <1>8, QueueAggReferences DEF ReferencesAt, IsAt, AtMost
<1>7. CASE p \in {"releasing", "mapped", "lost"}
  BY <1>7 DEF ReferencesAt, IsAt, AtMost
<1> QED  BY <1>1, <1>2, <1>3, <1>4, <1>5, <1>6, <1>7, <1>8 DEF Place

(* What the invariant says of the references to a slot. *)
LEMMA ReferencesLocated ==
  ASSUME IInv, NEW i \in Slot
  PROVE  IF slots[i] = "ON_FLIGHT" /\ i \notin lost
         THEN \E r : References(i) = {r}
         ELSE References(i) = {}
<1>1. \A p \in Place : AtMost(ReferencesAt(p, i), IsAt(p, i) /\ p # "lost")
  BY PlaceReferences
<1>2. "lost" \in Place /\ (IsAt("lost", i) <=> i \in lost)
  BY DEF Place, IsAt
<1>3. CASE slots[i] = "ON_FLIGHT"
  <2>1. PICK p \in Place : OnlyAt(p, i)
    BY <1>3 DEF IInv, Conserved, EachLocated, Located
  <2>2. \A q \in Place : q # p => ReferencesAt(q, i) = {}
    BY <2>1, <1>1 DEF AtMost, OnlyAt
  <2>3. CASE p = "lost"
    <3>1. i \in lost /\ ReferencesAt(p, i) = {}
      BY <2>1, <2>3, <1>1, <1>2 DEF AtMost, OnlyAt
    <3> QED  BY <3>1, <2>2, ReferencesByPlace
  <2>4. CASE p # "lost"
    <3>1. PICK r : ReferencesAt(p, i) = {r}
      BY <2>1, <2>4, <1>1 DEF AtMost, OnlyAt
    <3>2. i \notin lost
      BY <2>1, <2>4, <1>2 DEF OnlyAt
    <3>3. References(i) = {r}
      BY <2>2, <3>1, ReferencesByPlace
    <3> QED  BY <3>2, <3>3, <1>3
  <2> QED  BY <2>3, <2>4
<1>4. CASE slots[i] # "ON_FLIGHT"
  <2>1. \A p \in Place : ReferencesAt(p, i) = {}
    BY <1>4, <1>1 DEF IInv, Conserved, EachLocated, Located, Nowhere, AtMost
  <2> QED  BY <2>1, <1>4, ReferencesByPlace
<1> QED  BY <1>3, <1>4

(* Who names a slot, place by place: *)
LEMMA NamedByPlace ==
  ASSUME RelayTypeOK, NEW i
  PROVE  Named(i) <=> \E p \in Place \ {"lost"} : IsAt(p, i)
<1>1. \A q : Holds(q, i) <=> InSeq(q, i)
  BY DEF Holds, InSeq
<1>2. Waiting(i) <=> InQueue(i) \/ InPads(i)
  BY <1>1 DEF Waiting, InQueue, InPads, Somewhere
<1>3. (\E k \in 1 .. Len(scenes) : i \in SlotsOf(scenes[k])) <=> InScenes(i)
  <2>1. /\ Len(SlotSets(scenes)) = Len(scenes)
        /\ \A k \in 1 .. Len(scenes) : SlotSets(scenes)[k] = SlotsOf(scenes[k])
    BY SlotSetsElements DEF RelayTypeOK, Message
  <2> QED  BY <2>1 DEF InScenes, InSets
<1>4. Named(i) <=>
        \/ InQueue(i) \/ InPads(i) \/ InScenes(i) \/ InRule(i) \/ InSeq(relay, i)
        \/ InSets(frameDone, i) \/ i \in releasing \/ mapped = i \/ InSeq(releases, i)
  BY <1>1, <1>2, <1>3 DEF Named, InRule, InSets
<1> QED  BY <1>4 DEF IsAt, Place

(* the slots in flight that are not lost are named, and no others. *)
LEMMA NamedLocated ==
  ASSUME IInv, NEW i \in Slot
  PROVE  /\ Named(i) <=> slots[i] = "ON_FLIGHT" /\ i \notin lost
         /\ i \in lost => slots[i] = "ON_FLIGHT"
<1>1. Named(i) <=> \E p \in Place \ {"lost"} : IsAt(p, i)
  BY NamedByPlace DEF IInv
<1>2. "lost" \in Place /\ (IsAt("lost", i) <=> i \in lost)
  BY DEF Place, IsAt
<1>3. Located(i)
  BY DEF IInv, Conserved, EachLocated
<1> QED  BY <1>1, <1>2, <1>3 DEF Located, OnlyAt, Nowhere

-----------------------------------------------------------------------------
(* Conservation: a slot in flight has exactly one reference in the three   *)
(* processes and the queues, sockets and topics between them, unless it    *)
(* was thrown away with a buffer queue_agg dropped, a message or its       *)
(* reader; any other slot has none.  So for any number of channels and     *)
(* slots, in both modes and with every fault: nothing else loses a slot,   *)
(* and nothing is named twice.                                             *)
THEOREM ReferencesConserved == Spec => []OneReferenceUnlessLost
<1>1. IInv => OneReferenceUnlessLost
  <2> SUFFICES ASSUME IInv, NEW i \in Slot
               PROVE  IF slots[i] = "ON_FLIGHT" /\ i \notin lost
                      THEN \E r \in References(i) : References(i) = {r}
                      ELSE References(i) = {}
    BY DEF OneReferenceUnlessLost
  <2>1. CASE slots[i] = "ON_FLIGHT" /\ i \notin lost
    <3>1. PICK r : References(i) = {r}
      BY <2>1, ReferencesLocated
    <3> QED  BY <3>1, <2>1
  <2>2. CASE ~ (slots[i] = "ON_FLIGHT" /\ i \notin lost)
    BY <2>2, ReferencesLocated
  <2> QED  BY <2>1, <2>2
<1> QED  BY <1>1, InvAlways, PTL

(* A thread converts a frame into a slot nobody else refers to or fills.   *)
THEOREM WritersAlwaysAlone == Spec => []WritersAlone
<1>1. IInv => WritersAlone
  <2> SUFFICES ASSUME IInv, NEW c \in Channels, pc[c] \in Holding
               PROVE  /\ slots[held[c]] = "IN_USE"
                      /\ ~ Named(held[c])
                      /\ \A d \in Channels \ {c} : pc[d] \in Holding => held[d] # held[c]
    BY DEF WritersAlone
  <2>1. held[c] \in Slot /\ slots[held[c]] = "IN_USE"
    BY DEF IInv, RelayTypeOK, ProducerTypeOK, Conserved, HoldersAgree
  <2>2. ~ Named(held[c])
    BY <2>1, NamedLocated
  <2>3. \A d \in Channels \ {c} : pc[d] \in Holding => held[d] # held[c]
    BY DEF IInv, Conserved, HoldersAgree
  <2> QED  BY <2>1, <2>2, <2>3
<1> QED  BY <1>1, InvAlways, PTL

(* Every release, from the consumer or by frame_done, finds its slot in    *)
(* flight: ReleaseSlot never refuses one.                                  *)
THEOREM ReleasesAlwaysDue == Spec => []ReleasesAreDue
<1>1. IInv => ReleasesAreDue
  <2> SUFFICES ASSUME IInv PROVE ReleasesAreDue
    OBVIOUS
  <2>1. \A i \in Slot : \A p \in Place : IsAt(p, i) => CanRelease(i)
    BY LocatedOnly DEF IInv, Conserved, EachLocated, CanRelease
  <2>2. \A i \in releasing : CanRelease(i)
    BY <2>1 DEF IInv, RelayTypeOK, IsAt, Place
  <2>3. ASSUME releases # <<>> PROVE CanRelease(Head(releases))
    <3>1. Head(releases) \in Slot /\ Head(releases) = releases[1] /\ 1 \in 1 .. Len(releases)
      BY <2>3, TailElements DEF IInv, RelayTypeOK, ProducerTypeOK
    <3>2. IsAt("releases", Head(releases)) /\ "releases" \in Place
      BY <3>1 DEF IsAt, InSeq, Place
    <3> QED  BY <2>1, <3>1, <3>2
  <2> QED  BY <2>2, <2>3 DEF ReleasesAreDue
<1> QED  BY <1>1, InvAlways, PTL

-----------------------------------------------------------------------------
(* Where queue_agg has room for every slot, it never drops one.            *)

(* A full queue_agg would hold every slot but the one being pushed. *)
LEMMA QueueHasRoom ==
  ASSUME IInv, NumSlots <= MaxSizeBuffers, NEW c \in Channels, pc[c] \in Holding
  PROVE  Len(queueAgg[c]) < MaxSizeBuffers
<1> DEFINE q == queueAgg[c]
           h == held[c]
           T == Slot \ {h}
<1>1. q \in Seq(Slot) /\ Len(q) \in Nat /\ h \in Slot /\ slots[h] = "IN_USE"
  BY DEF IInv, RelayTypeOK, ProducerTypeOK, Conserved, HoldersAgree
<1>2. NumSlots \in Nat \ {0} /\ MaxSizeBuffers \in Nat
  BY NumSlotsAssumption, RelayAssumption DEF kMaxSlots
<1>3. /\ IsFiniteSet(Slot) /\ Cardinality(Slot) = NumSlots
      /\ IsFiniteSet(1 .. Len(q)) /\ Cardinality(1 .. Len(q)) = Len(q)
  <2>1. 0 \in Int /\ NumSlots - 1 \in Int /\ 1 \in Int /\ Len(q) \in Int
    BY <1>1, <1>2
  <2> HIDE DEF q
  <2>2. /\ IsFiniteSet(0 .. NumSlots - 1)
        /\ Cardinality(0 .. NumSlots - 1) = IF 0 > NumSlots - 1 THEN 0 ELSE (NumSlots - 1) - 0 + 1
    BY <2>1, FS_Interval
  <2>3. /\ IsFiniteSet(1 .. Len(q))
        /\ Cardinality(1 .. Len(q)) = IF 1 > Len(q) THEN 0 ELSE Len(q) - 1 + 1
    BY <2>1, FS_Interval
  <2> QED  BY <2>2, <2>3, <1>1, <1>2 DEF Slot
<1>4. IsFiniteSet(T) /\ Cardinality(T) = NumSlots - 1
  BY <1>1, <1>3, FS_RemoveElement
<1>5. \A k \in 1 .. Len(q) : q[k] \in T
  <2>1. ~ IsAt("queue", h)
    BY <1>1 DEF IInv, Conserved, EachLocated, Located, Nowhere, Place
  <2> QED  BY <1>1, <2>1 DEF IsAt, InQueue, Somewhere, InSeq
<1>6. \A j, k \in 1 .. Len(q) : q[j] = q[k] => j = k
  BY <1>1 DEF IInv, Conserved, NothingTwice, QueueOnce, OnceAmong, OnceIn
<1> DEFINE f == [k \in 1 .. Len(q) |-> q[k]]
           S == 1 .. Len(q)
<1>7. f \in [S -> T] /\ \A j, k \in S : f[j] = f[k] => j = k
  BY <1>5, <1>6
<1>8. ~ (Cardinality(T) < Cardinality(S))
  <2>1. IsFiniteSet(S) /\ IsFiniteSet(T)
    BY <1>3, <1>4
  <2> HIDE DEF f, S, T
  <2> QED  BY <1>7, <2>1, FS_PigeonHole
<1> QED  BY <1>1, <1>2, <1>3, <1>4, <1>8

NoLoss == lost = {} /\ connected = Topics /\ worker # "stopping"

LEMMA NothingIsLost ==
  ASSUME Faults = {}, NumSlots <= MaxSizeBuffers, IInv, NoLoss, [Next]_vars
  PROVE  NoLoss'
<1>1. ASSUME NEW c \in Channels, OffloadStep(c) PROVE NoLoss'
  <2>1. CASE PushFrame(c)
    <3>1. Len(queueAgg[c]) < MaxSizeBuffers
      BY <2>1, QueueHasRoom DEF PushFrame, SubmitSlot, Holding
    <3>2. Len(queueAgg[c]) \in Nat /\ MaxSizeBuffers \in Nat
      BY RelayAssumption DEF IInv, RelayTypeOK
    <3> QED  BY <2>1, <3>1, <3>2 DEF PushFrame, Enqueue, PushRefused, NoLoss
  <2> QED  BY <1>1, <2>1 DEF OffloadStep, NoLoss, pipeVars, aggVars
<1>2. CASE (\E c \in Channels : ForwardFrame(c)) \/ PublishScene \/ EndOfStream \/ PipelineError
  BY <1>2 DEF ForwardFrame, PublishScene, EndOfStream, PipelineError, NoLoss, Topics
<1>3. CASE OnFrameDone \/ ReleaseEntry \/ RelayConnected
  BY <1>3 DEF OnFrameDone, ReleaseEntry, RelayConnected, NoLoss, aggVars
<1>4. CASE PublishFailed
  BY <1>4 DEF PublishFailed, NoLoss, Topics
<1>5. CASE OnScene \/ (\E c \in Channels : NotRelayed(c) \/ RelaySent(c) \/ RelayFailed(c)) \/ PublishFrameDone
  BY <1>5 DEF OnScene, NotRelayed, RelaySent, RelayFailed, PublishFrameDone, EndScene, NoLoss, aggVars
<1>6. CASE MapRelayed \/ ReleaseMapped \/ ConsumerExit \/ ConnectionLost
  BY <1>6 DEF MapRelayed, ReleaseMapped, ConsumerExit, ConnectionLost, NoLoss, pipeVars, aggVars
<1>7. CASE UNCHANGED vars
  BY <1>7 DEF vars, pipeVars, aggVars, NoLoss
<1> QED  BY <1>1, <1>2, <1>3, <1>4, <1>5, <1>6, <1>7 DEF Next, RuleStep

(* Without faults the claim that queue_agg breaks holds when the pool has  *)
(* no more slots than queue_agg has room for buffers: every slot in flight *)
(* is then named by somebody who will release it.  The program's defaults  *)
(* are eight slots and three buffers.                                      *)
THEOREM SmallPoolsAreNamed ==
  ASSUME Faults = {}, NumSlots <= MaxSizeBuffers
  PROVE  Spec => []EveryFlightIsNamed
<1>1. Init => NoLoss
  BY DEF Init, NoLoss
<1>2. IInv /\ NoLoss /\ [Next]_vars => NoLoss'
  BY NothingIsLost
<1>3. IInv /\ NoLoss => EveryFlightIsNamed
  BY NamedLocated DEF NoLoss, EveryFlightIsNamed
<1> QED  BY InvAlways, <1>1, <1>2, <1>3, PTL DEF Spec

-----------------------------------------------------------------------------
(* The abstract lease.  A step moves at most one slot of the pool's table, *)
SlotMove(i, from, to) == slots[i] = from /\ slots' = [slots EXCEPT ![i] = to]

OneSlotMoves ==
  \/ UNCHANGED slots
  \/ \E i \in Slot : \/ SlotMove(i, "IDLE", "IN_USE")
                     \/ SlotMove(i, "IN_USE", "IDLE")
                     \/ SlotMove(i, "IN_USE", "ON_FLIGHT")
                     \/ SlotMove(i, "ON_FLIGHT", "IDLE")

LEMMA StepMovesOneSlot == [Next]_vars => OneSlotMoves
<1> SUFFICES ASSUME [Next]_vars PROVE OneSlotMoves
  OBVIOUS
<1>1. \A i : slots' \in {Released(i), Reverted(i), Submitted(i)} => OneSlotMoves
  BY DEF OneSlotMoves, SlotMove, Released, CanRelease, Reverted, CanRevert, Submitted, CanSubmit
<1>2. ASSUME NEW c \in Channels, SubmitFrameStep(c) PROVE OneSlotMoves
  <2>1. CASE Acquire(c)
    BY <2>1 DEF Acquire, Acquired, IsFirstIdle, OneSlotMoves, SlotMove
  <2>2. CASE PollOneRelease(c) \/ SyncFailed(c) \/ SendFailed(c)
    BY <2>2, <1>1 DEF PollOneRelease, SyncFailed, SendFailed
  <2>3. CASE StartSubmit(c) \/ PollDone(c) \/ NoFreeSlot(c) \/ Written(c) \/ SendFrame(c)
    BY <2>3 DEF StartSubmit, PollDone, NoFreeSlot, Written, SendFrame, OneSlotMoves
  <2> QED  BY <1>2, <2>1, <2>2, <2>3 DEF SubmitFrameStep
<1>3. ASSUME NEW c \in Channels, PushFrame(c) PROVE OneSlotMoves
  BY <1>3, <1>1 DEF PushFrame, SubmitSlot
<1>4. CASE ReleaseEntry
  BY <1>4, <1>1 DEF ReleaseEntry, ReleaseSlotDirect
<1>8. ASSUME NEW c \in Channels, ForwardFrame(c) PROVE OneSlotMoves
  BY <1>8 DEF ForwardFrame, producerVars, OneSlotMoves
<1>9. CASE EndOfStream \/ PipelineError
  BY <1>9 DEF EndOfStream, PipelineError, producerVars, OneSlotMoves
<1>5. CASE PublishScene \/ OnFrameDone \/ RelayConnected \/ RuleStep \/ PublishFailed
  BY <1>5 DEF PublishScene, OnFrameDone, RelayConnected, RuleStep, OnScene, NotRelayed, RelaySent, RelayFailed,
              PublishFrameDone, PublishFailed, EndScene, producerVars, OneSlotMoves
<1>6. CASE MapRelayed \/ ReleaseMapped \/ ConsumerExit \/ ConnectionLost
  BY <1>6 DEF MapRelayed, ReleaseMapped, ReleaseFrame, ConsumerExit, CloseConsumer, ConnectionLost,
              producerVars, aggVars, OneSlotMoves
<1>7. CASE UNCHANGED vars
  BY <1>7 DEF vars, producerVars, OneSlotMoves, aggVars
<1> QED  BY <1>2, <1>3, <1>4, <1>5, <1>6, <1>7, <1>8, <1>9 DEF Next, OffloadStep

(* and under the invariant the table shows what the parties hold. *)
PhaseOf(state) ==
  IF state = "IN_USE" THEN "filling" ELSE IF state = "ON_FLIGHT" THEN "lent" ELSE "free"

LEMMA LeaseIsTable == IInv => LeaseView = [i \in Slot |-> PhaseOf(slots[i])]
<1> SUFFICES ASSUME IInv PROVE LeaseView = [i \in Slot |-> PhaseOf(slots[i])]
  OBVIOUS
<1>1. ASSUME NEW i \in Slot
      PROVE  (IF \E c \in Channels : pc[c] \in Holding /\ held[c] = i THEN "filling"
              ELSE IF Named(i) \/ i \in lost THEN "lent"
              ELSE "free") = PhaseOf(slots[i])
  <2>1. (\E c \in Channels : pc[c] \in Holding /\ held[c] = i) <=> slots[i] = "IN_USE"
    BY DEF IInv, Conserved, HoldersAgree
  <2>2. Named(i) \/ i \in lost <=> slots[i] = "ON_FLIGHT"
    BY NamedLocated
  <2> QED  BY <2>1, <2>2 DEF PhaseOf
<1> QED  BY <1>1 DEF LeaseView

LEMMA LeaseInit == Init => Lease!Init
<1> SUFFICES ASSUME Init PROVE LeaseView = [i \in Slot |-> "free"]
  BY DEF Lease!Init
<1>1. LeaseView = [i \in Slot |-> PhaseOf(slots[i])]
  BY InitType, InitConserved, LeaseIsTable DEF IInv
<1>2. \A i \in Slot : slots[i] = "IDLE"
  BY DEF Init, ProducerInit, SlotPoolInit
<1> QED  BY <1>1, <1>2 DEF PhaseOf

LEMMA LeaseStep == IInv /\ IInv' /\ [Next]_vars => [Lease!Next]_LeaseView
<1> SUFFICES ASSUME IInv, IInv', [Next]_vars PROVE [Lease!Next]_LeaseView
  OBVIOUS
<1> DEFINE V == [i \in Slot |-> PhaseOf(slots[i])]
           W == [i \in Slot |-> PhaseOf(slots'[i])]
<1>1. LeaseView = V
  BY LeaseIsTable
<1>2. LeaseView' = W
  <2>1. (LeaseView = [i \in Slot |-> PhaseOf(slots[i])])'
    BY LeaseIsTable, PTL
  <2> QED  BY <2>1
<1>3. ASSUME NEW i \in Slot, NEW from, NEW to, SlotMove(i, from, to)
      PROVE  V[i] = PhaseOf(from) /\ W = [V EXCEPT ![i] = PhaseOf(to)]
  <2>1. slots \in [Slot -> SlotState]
    BY DEF IInv, RelayTypeOK, ProducerTypeOK, SlotPoolTypeOK
  <2>2. slots'[i] = to /\ \A j \in Slot \ {i} : slots'[j] = slots[j]
    BY <1>3, <2>1 DEF SlotMove
  <2>3. V[i] = PhaseOf(from)
    BY <1>3 DEF SlotMove
  <2>4. \A j \in Slot : PhaseOf(slots'[j]) = IF j = i THEN PhaseOf(to) ELSE PhaseOf(slots[j])
    BY <2>2
  <2>5. W = [V EXCEPT ![i] = PhaseOf(to)]
    BY <2>4
  <2> QED  BY <2>3, <2>5
<1>4. OneSlotMoves
  BY StepMovesOneSlot
<1>5. CASE UNCHANGED slots
  BY <1>5, <1>1, <1>2
<1>6. ASSUME NEW i \in Slot,
             \/ SlotMove(i, "IDLE", "IN_USE") \/ SlotMove(i, "IN_USE", "IDLE")
             \/ SlotMove(i, "IN_USE", "ON_FLIGHT") \/ SlotMove(i, "ON_FLIGHT", "IDLE")
      PROVE  Lease!Next
  <2>1. /\ PhaseOf("IDLE") = "free" /\ PhaseOf("IN_USE") = "filling" /\ PhaseOf("ON_FLIGHT") = "lent"
    BY DEF PhaseOf
  <2> HIDE DEF V, W
  <2>2. Lease!Fill(i) \/ Lease!Abandon(i) \/ Lease!Lend(i) \/ Lease!Return(i)
    BY <1>1, <1>2, <1>3, <1>6, <2>1
    DEF Lease!Fill, Lease!Abandon, Lease!Lend, Lease!Return, Lease!Move
  <2> QED  BY <2>2 DEF Lease!Next
<1> QED  BY <1>4, <1>5, <1>6 DEF OneSlotMoves

(* The pipeline implements the abstract lease: seen from who holds and who *)
(* refers to a slot, the pool lends each slot to one party at a time and   *)
(* takes back only what was lent.                                          *)
THEOREM ImplementsLease == Spec => LeaseSafe
  BY InvAlways, LeaseInit, LeaseStep, PTL DEF Spec, LeaseSafe, Lease!Spec

=============================================================================
