------------------------ MODULE DirectChannel_proofs ------------------------
(***************************************************************************)
(* Proofs about DirectChannel, for any set of channels, any number of      *)
(* slots the pool accepts and any socket capacity.                         *)
(***************************************************************************)
EXTENDS DirectChannel, SequenceFacts, TLAPS

-----------------------------------------------------------------------------
(* NoSlot is not a slot, and slots are integers. *)
LEMMA SlotFacts == Slot \subseteq Int /\ NoSlot \notin Slot
  BY NumSlotsAssumption, SMT DEF Slot, NoSlot, kMaxSlots

-----------------------------------------------------------------------------
(* The steps of a SubmitFrame call keep every variable in its type. *)
LEMMA SubmitFrameType ==
  ASSUME ProducerTypeOK, NEW c \in Channels, SubmitFrameStep(c) \/ SubmitSlot(c)
  PROVE  ProducerTypeOK'
<1> USE DEF ProducerTypeOK, SlotPoolTypeOK, Goto, Return, Holding
<1>1. CASE StartSubmit(c)
  BY <1>1 DEF StartSubmit
<1>2. CASE PollOneRelease(c)
  <2>1. Head(releases) \in Slot /\ Tail(releases) \in Seq(Slot)
    BY <1>2, TailElements DEF PollOneRelease
  <2>2. slots' \in [Slot -> SlotState]
    BY <1>2, <2>1 DEF PollOneRelease, Released, SlotState
  <2> QED  BY <1>2, <2>1, <2>2 DEF PollOneRelease
<1>3. CASE PollDone(c)
  BY <1>3 DEF PollDone
<1>4. CASE Acquire(c)
  <2>1. PICK i \in Slot :
          /\ pc[c] = "acquire"
          /\ slots' = Acquired(i)
          /\ held' = [held EXCEPT ![c] = i]
          /\ pc' = [pc EXCEPT ![c] = "writing"]
          /\ UNCHANGED <<tasks, releases, peerUp>>
    BY <1>4 DEF Acquire
  <2>2. slots' \in [Slot -> SlotState]
    BY <2>1 DEF Acquired, SlotState
  <2> QED  BY <2>1, <2>2
<1>5. CASE NoFreeSlot(c)
  BY <1>5 DEF NoFreeSlot
<1>6. CASE SyncFailed(c)
  <2>1. slots' \in [Slot -> SlotState]
    BY <1>6 DEF SyncFailed, Reverted, SlotState
  <2> QED  BY <1>6, <2>1 DEF SyncFailed
<1>7. CASE Written(c)
  BY <1>7 DEF Written
<1>8. CASE SendFrame(c)
  <2>1. held[c] \in Slot
    BY <1>8 DEF SendFrame
  <2>2. tasks' \in Seq(Slot)
    BY <1>8, <2>1, AppendElements DEF SendFrame
  <2> QED  BY <1>8, <2>2 DEF SendFrame
<1>9. CASE SendFailed(c)
  <2>1. slots' \in [Slot -> SlotState]
    BY <1>9 DEF SendFailed, Reverted, SlotState
  <2> QED  BY <1>9, <2>1 DEF SendFailed
<1>10. CASE SubmitSlot(c)
  <2>1. slots' \in [Slot -> SlotState]
    BY <1>10 DEF SubmitSlot, Submitted, SlotState
  <2> QED  BY <1>10, <2>1 DEF SubmitSlot
<1> QED  BY <1>1, <1>2, <1>3, <1>4, <1>5, <1>6, <1>7, <1>8, <1>9, <1>10
         DEF SubmitFrameStep

(* Type correctness of the composition with the consumer. *)
LEMMA TypeInductive == DirectTypeOK /\ [Next]_vars => DirectTypeOK'
<1> SUFFICES ASSUME DirectTypeOK, [Next]_vars PROVE DirectTypeOK'
  OBVIOUS
<1> USE DEF DirectTypeOK, ConsumerTypeOK, Holding
<1>1. ASSUME NEW c \in Channels, ProducerStep(c) PROVE DirectTypeOK'
  BY <1>1, SubmitFrameType DEF ProducerStep
<1>2. CASE RecvFrame
  <2>1. Head(tasks) \in Slot /\ Tail(tasks) \in Seq(Slot)
    BY <1>2, TailElements DEF RecvFrame, MapFrame, ProducerTypeOK
  <2> QED  BY <1>2, <2>1 DEF RecvFrame, MapFrame, ProducerTypeOK, SlotPoolTypeOK
<1>3. CASE ReleaseFrame
  <2>1. releases' \in Seq(Slot)
    BY <1>3, AppendElements DEF ReleaseFrame, ProducerTypeOK
  <2> QED  BY <1>3, <2>1 DEF ReleaseFrame, ProducerTypeOK, SlotPoolTypeOK
<1>4. CASE CloseConsumer
  <2>1. tasks' \in Seq(Slot)
    BY <1>4 DEF CloseConsumer
  <2> QED  BY <1>4, <2>1 DEF CloseConsumer, ProducerTypeOK, SlotPoolTypeOK
<1>5. CASE UNCHANGED vars
  BY <1>5 DEF vars, ProducerTypeOK, SlotPoolTypeOK
<1> QED  BY <1>1, <1>2, <1>3, <1>4, <1>5 DEF Next

(* Init of the producer, its pool and the consumer gives well-typed state. *)
LEMMA InitType == Init => DirectTypeOK
  BY DEF Init, ProducerInit, ConsumerInit, SlotPoolInit, DirectTypeOK, ConsumerTypeOK, ProducerTypeOK,
         SlotPoolTypeOK, SlotState, Holding

(* Type correctness: the values of SubmitFrame's locals, the packets in    *)
(* the socket and the slot table stay in range in every behaviour.         *)
THEOREM TypeCorrect == Spec => []DirectTypeOK
  BY InitType, TypeInductive, PTL DEF Spec

-----------------------------------------------------------------------------
(* Who shares a slot.  SlotExclusive is not inductive alone: that the slot *)
(* AcquireSlot hands out is unknown to everybody else needs PoolAgrees.    *)

IInv == DirectTypeOK /\ SlotExclusive /\ PoolAgrees

(* After Init every slot is idle and nobody refers to any of them.         *)
LEMMA InitOwnership == Init => SlotExclusive /\ PoolAgrees
  BY SlotFacts
  DEF Init, ProducerInit, ConsumerInit, SlotExclusive, OneWriterPerSlot, OneReferencePerSlot,
      NoWriteWhileLent, PoolAgrees, Lent, InTasks, InReleases, Holding

(* Steps that leave the packets and the frame being read where they are    *)
(* and bring no thread to hold a slot it did not hold.                     *)
LEMMA QuietStep ==
  ASSUME IInv, NEW c \in Channels, NEW label,
         pc' = [pc EXCEPT ![c] = label],
         label \in Holding => pc[c] = "writing" /\ held'[c] = held[c],
         \A d \in Channels \ {c} : held'[d] = held[d],
         UNCHANGED <<slots, tasks, releases, mapped>>
  PROVE  SlotExclusive' /\ PoolAgrees'
<1> USE DEF IInv, SlotExclusive, PoolAgrees, DirectTypeOK, ConsumerTypeOK, ProducerTypeOK
<1>1. \A i : /\ (Lent(i))' <=> Lent(i)
             /\ (InTasks(i))' <=> InTasks(i)
             /\ (InReleases(i))' <=> InReleases(i)
  BY DEF Lent, InTasks, InReleases
<1>2. \A d \in Channels : pc'[d] \in Holding =>
        pc[d] \in Holding /\ held'[d] = held[d] /\ held[d] \in Slot
  BY DEF Holding
<1>3. OneWriterPerSlot'
  BY <1>2 DEF OneWriterPerSlot, Holding
<1>4. OneReferencePerSlot'
  BY <1>1 DEF OneReferencePerSlot
<1>5. NoWriteWhileLent'
  BY <1>1, <1>2 DEF NoWriteWhileLent, Holding
<1>6. PoolAgrees'
  BY <1>1, <1>2 DEF Holding
<1> QED  BY <1>3, <1>4, <1>5, <1>6

(* A thread gives its slot up: nobody else sees the difference. *)
LEMMA GiveUpStep ==
  ASSUME IInv, NEW c \in Channels, pc[c] \in {"writing", "send"},
         slots' = Reverted(held[c]), Return(c),
         UNCHANGED <<tasks, releases, mapped>>
  PROVE  SlotExclusive' /\ PoolAgrees'
<1> USE DEF IInv, SlotExclusive, PoolAgrees, DirectTypeOK, ConsumerTypeOK, ProducerTypeOK, SlotPoolTypeOK
<1>1. \A i : /\ (Lent(i))' <=> Lent(i)
             /\ (InTasks(i))' <=> InTasks(i)
             /\ (InReleases(i))' <=> InReleases(i)
  BY DEF Lent, InTasks, InReleases
<1>2. \A d \in Channels : pc'[d] \in Holding =>
        d # c /\ pc[d] = pc'[d] /\ held'[d] = held[d] /\ held[d] \in Slot
  BY DEF Return, Goto, Holding
<1>3. /\ held[c] \in Slot
      /\ ~ Lent(held[c])
      /\ \A i \in Slot : i # held[c] => slots'[i] = slots[i]
  BY DEF Holding, NoWriteWhileLent, Reverted
<1>4. OneWriterPerSlot'
  BY <1>2 DEF OneWriterPerSlot, Holding
<1>5. OneReferencePerSlot'
  BY <1>1 DEF OneReferencePerSlot
<1>6. NoWriteWhileLent'
  BY <1>1, <1>2 DEF NoWriteWhileLent, Holding
<1>7. PoolAgrees'
  BY <1>1, <1>2, <1>3 DEF OneWriterPerSlot, Holding
<1> QED  BY <1>4, <1>5, <1>6, <1>7

(* PollReleases frees the slot its packet names, and only that one; no     *)
(* other packet or frame names it, and no thread holds it unless the slot  *)
(* is IN_USE, in which case ReleaseSlot refuses.                           *)
LEMMA PollStep ==
  ASSUME IInv, NEW c \in Channels, PollOneRelease(c), UNCHANGED mapped
  PROVE  SlotExclusive' /\ PoolAgrees'
<1> USE DEF IInv, SlotExclusive, PoolAgrees, DirectTypeOK, ConsumerTypeOK, ProducerTypeOK, SlotPoolTypeOK
<1> DEFINE r == Head(releases)
<1>1. /\ r \in Slot
      /\ r = releases[1]
      /\ Len(releases) \in Nat \ {0}
      /\ Len(releases') = Len(releases) - 1
      /\ \A k \in 1 .. Len(releases) - 1 : releases'[k] = releases[k + 1]
  BY TailElements DEF PollOneRelease
<1>2. UNCHANGED <<pc, held, tasks, mapped>> /\ slots' = Released(r)
  BY DEF PollOneRelease
<1> HIDE DEF r
<1>3. \A i : InReleases(i)' => InReleases(i) /\ i # r
  BY <1>1 DEF InReleases, OneReferencePerSlot
<1>4. \A i : (InTasks(i))' <=> InTasks(i)
  BY <1>2 DEF InTasks
<1>5. InReleases(r)
  BY <1>1 DEF InReleases
<1>6. ~ InTasks(r) /\ mapped # r
  BY <1>1, <1>5 DEF OneReferencePerSlot
<1>7. \A i : (Lent(i))' => Lent(i) /\ i # r
  BY <1>2, <1>3, <1>4, <1>6 DEF Lent
<1>8. \A i \in Slot : slots'[i] # slots[i] => i = r /\ slots[i] = "ON_FLIGHT"
  BY <1>2 DEF Released, CanRelease
<1>9. OneWriterPerSlot'
  BY <1>2 DEF OneWriterPerSlot
<1>10. OneReferencePerSlot'
  <2>1. ASSUME NEW j \in 1 .. Len(releases'), NEW k \in 1 .. Len(releases'),
               releases'[j] = releases'[k]
        PROVE  j = k
    <3>1. j + 1 \in 1 .. Len(releases) /\ k + 1 \in 1 .. Len(releases)
      BY <1>1
    <3>2. releases[j + 1] = releases[k + 1]
      BY <1>1, <2>1
    <3>3. j + 1 = k + 1
      BY <3>1, <3>2 DEF OneReferencePerSlot
    <3> QED  BY <3>3
  <2> QED  BY <1>2, <1>3, <1>4, <2>1 DEF OneReferencePerSlot
<1>11. NoWriteWhileLent'
  BY <1>2, <1>7 DEF NoWriteWhileLent
<1>12. PoolAgrees'
  BY <1>2, <1>7, <1>8 DEF Holding
<1> QED  BY <1>9, <1>10, <1>11, <1>12

(* AcquireSlot hands out an idle slot, which by PoolAgrees nobody knows. *)
LEMMA AcquireStep ==
  ASSUME IInv, NEW c \in Channels, Acquire(c), UNCHANGED mapped
  PROVE  SlotExclusive' /\ PoolAgrees'
<1> USE DEF IInv, SlotExclusive, PoolAgrees, DirectTypeOK, ConsumerTypeOK, ProducerTypeOK, SlotPoolTypeOK
<1>1. PICK i \in Slot :
        /\ slots[i] = "IDLE"
        /\ slots' = [slots EXCEPT ![i] = "IN_USE"]
        /\ held' = [held EXCEPT ![c] = i]
        /\ pc' = [pc EXCEPT ![c] = "writing"]
        /\ UNCHANGED <<tasks, releases, mapped>>
  BY DEF Acquire, IsFirstIdle, Acquired, Goto
<1>2. \A j : /\ (Lent(j))' <=> Lent(j)
             /\ (InTasks(j))' <=> InTasks(j)
             /\ (InReleases(j))' <=> InReleases(j)
  BY <1>1 DEF Lent, InTasks, InReleases
<1>3. \A d \in Channels \ {c} : pc'[d] \in Holding =>
        /\ pc'[d] = pc[d]
        /\ held'[d] = held[d]
        /\ held[d] \in Slot \ {i}
  BY <1>1 DEF Holding
<1>4. pc'[c] = "writing" /\ held'[c] = i /\ ~ Lent(i)
  BY <1>1
<1>5. OneWriterPerSlot'
  BY <1>3, <1>4 DEF OneWriterPerSlot, Holding
<1>6. OneReferencePerSlot'
  BY <1>1, <1>2 DEF OneReferencePerSlot
<1>7. NoWriteWhileLent'
  BY <1>2, <1>3, <1>4 DEF NoWriteWhileLent, Holding
<1>8. PoolAgrees'
  BY <1>1, <1>2, <1>3, <1>4 DEF Holding
<1> QED  BY <1>5, <1>6, <1>7, <1>8

(* The task packet carries a slot no other packet names. *)
LEMMA SendStep ==
  ASSUME IInv, NEW c \in Channels, SendFrame(c), UNCHANGED mapped
  PROVE  SlotExclusive' /\ PoolAgrees'
<1> USE DEF IInv, SlotExclusive, PoolAgrees, DirectTypeOK, ConsumerTypeOK, ProducerTypeOK, SlotPoolTypeOK
<1> DEFINE h == held[c]
<1>1. /\ h \in Slot
      /\ slots[h] = "IN_USE"
      /\ ~ Lent(h)
  BY DEF SendFrame, Holding, NoWriteWhileLent
<1>2. /\ Len(tasks) \in Nat
      /\ Len(tasks') = Len(tasks) + 1
      /\ \A k \in 1 .. Len(tasks) : tasks'[k] = tasks[k]
      /\ tasks'[Len(tasks) + 1] = h
  BY <1>1, AppendElements DEF SendFrame
<1>3. /\ UNCHANGED <<slots, held, releases, mapped>>
      /\ pc' = [pc EXCEPT ![c] = "submit"]
      /\ pc[c] = "send"
  BY DEF SendFrame, Goto
<1> HIDE DEF h
<1>4. \A i : (InTasks(i))' <=> InTasks(i) \/ i = h
  <2>1. 1 .. Len(tasks') = (1 .. Len(tasks)) \cup {Len(tasks) + 1}
    BY <1>2
  <2> QED  BY <1>2, <2>1 DEF InTasks
<1>5. \A i : (InReleases(i))' <=> InReleases(i)
  BY <1>3 DEF InReleases
<1>6. \A i : (Lent(i))' <=> Lent(i) \/ i = h
  BY <1>3, <1>4, <1>5 DEF Lent
<1>7. \A d \in Channels : pc'[d] \in Holding => pc[d] \in Holding /\ held[d] \in Slot
  BY <1>3 DEF Holding
<1>8. OneWriterPerSlot'
  BY <1>3, <1>7 DEF OneWriterPerSlot
<1>9. OneReferencePerSlot'
  <2>1. ~ InTasks(h) /\ ~ InReleases(h) /\ mapped # h
    BY <1>1 DEF Lent
  <2>2. \A j, k \in 1 .. Len(tasks') : tasks'[j] = tasks'[k] => j = k
    BY <1>2, <2>1 DEF OneReferencePerSlot, InTasks
  <2> QED  BY <1>3, <1>4, <1>5, <2>1, <2>2 DEF OneReferencePerSlot
<1>10. NoWriteWhileLent'
  <2> SUFFICES ASSUME NEW d \in Channels, pc'[d] \in {"writing", "send"}
               PROVE  (~ Lent(held[d]))'
    BY DEF NoWriteWhileLent
  <2>1. d # c /\ pc[d] = pc'[d] /\ held'[d] = held[d]
    BY <1>3
  <2>2. held[d] # h
    BY <1>3, <2>1 DEF OneWriterPerSlot, Holding, h
  <2> QED  BY <1>6, <2>1, <2>2 DEF NoWriteWhileLent
<1>11. PoolAgrees'
  BY <1>1, <1>3, <1>6, <1>7
<1> QED  BY <1>8, <1>9, <1>10, <1>11

(* The submitted slot becomes ON_FLIGHT and its thread forgets it. *)
LEMMA SubmitStep ==
  ASSUME IInv, NEW c \in Channels, SubmitSlot(c), UNCHANGED mapped
  PROVE  SlotExclusive' /\ PoolAgrees'
<1> USE DEF IInv, SlotExclusive, PoolAgrees, DirectTypeOK, ConsumerTypeOK, ProducerTypeOK, SlotPoolTypeOK
<1>1. \A i : /\ (Lent(i))' <=> Lent(i)
             /\ (InTasks(i))' <=> InTasks(i)
             /\ (InReleases(i))' <=> InReleases(i)
  BY DEF SubmitSlot, Lent, InTasks, InReleases
<1>2. \A d \in Channels : pc'[d] \in Holding =>
        d # c /\ pc[d] = pc'[d] /\ held'[d] = held[d] /\ held[d] \in Slot
  BY DEF SubmitSlot, Return, Goto, Holding
<1>3. /\ held[c] \in Slot
      /\ slots' = [slots EXCEPT ![held[c]] = "ON_FLIGHT"]
  BY DEF SubmitSlot, Submitted, CanSubmit, Holding
<1>4. OneWriterPerSlot'
  BY <1>2 DEF OneWriterPerSlot, Holding
<1>5. OneReferencePerSlot'
  BY <1>1 DEF OneReferencePerSlot, SubmitSlot
<1>6. NoWriteWhileLent'
  BY <1>1, <1>2 DEF NoWriteWhileLent, Holding
<1>7. PoolAgrees'
  <2>1. \A d \in Channels \ {c} : pc[d] \in Holding => held[d] # held[c]
    BY DEF OneWriterPerSlot, SubmitSlot, Holding
  <2> QED  BY <1>1, <1>2, <1>3, <2>1
<1> QED  BY <1>4, <1>5, <1>6, <1>7

(* The frame being read is the one whose task packet was received. *)
LEMMA RecvStep ==
  ASSUME IInv, RecvFrame
  PROVE  SlotExclusive' /\ PoolAgrees'
<1> USE DEF IInv, SlotExclusive, PoolAgrees, DirectTypeOK, ConsumerTypeOK, ProducerTypeOK, SlotPoolTypeOK
<1> DEFINE r == Head(tasks)
<1>1. /\ r \in Slot
      /\ r = tasks[1]
      /\ Len(tasks) \in Nat \ {0}
      /\ Len(tasks') = Len(tasks) - 1
      /\ \A k \in 1 .. Len(tasks) - 1 : tasks'[k] = tasks[k + 1]
  BY TailElements DEF RecvFrame, MapFrame
<1>2. /\ mapped = NoSlot
      /\ mapped' = r
      /\ UNCHANGED <<slots, pc, held, releases>>
  BY DEF RecvFrame, MapFrame
<1> HIDE DEF r
<1>3. \A i : (InTasks(i))' => InTasks(i) /\ i # r
  BY <1>1 DEF InTasks, OneReferencePerSlot
<1>4. \A i : (InReleases(i))' <=> InReleases(i)
  BY <1>2 DEF InReleases
<1>5. InTasks(r)
  BY <1>1 DEF InTasks
<1>6. \A i : (Lent(i))' => Lent(i)
  BY <1>2, <1>3, <1>4, <1>5 DEF Lent
<1>7. OneWriterPerSlot'
  BY <1>2 DEF OneWriterPerSlot
<1>8. OneReferencePerSlot'
  <2>1. ASSUME NEW j \in 1 .. Len(tasks'), NEW k \in 1 .. Len(tasks'),
               tasks'[j] = tasks'[k]
        PROVE  j = k
    <3>1. j + 1 \in 1 .. Len(tasks) /\ k + 1 \in 1 .. Len(tasks)
      BY <1>1
    <3>2. tasks[j + 1] = tasks[k + 1]
      BY <1>1, <2>1
    <3>3. j + 1 = k + 1
      BY <3>1, <3>2 DEF OneReferencePerSlot
    <3> QED  BY <3>3
  <2>2. ~ InReleases(r)
    BY <1>1, <1>5 DEF OneReferencePerSlot
  <2> QED  BY <1>2, <1>3, <1>4, <2>1, <2>2 DEF OneReferencePerSlot
<1>9. NoWriteWhileLent'
  BY <1>2, <1>6 DEF NoWriteWhileLent
<1>10. PoolAgrees'
  BY <1>2, <1>6
<1> QED  BY <1>7, <1>8, <1>9, <1>10

(* The release packet names the frame that was being read. *)
LEMMA ReleaseStep ==
  ASSUME IInv, ReleaseFrame
  PROVE  SlotExclusive' /\ PoolAgrees'
<1> USE DEF IInv, SlotExclusive, PoolAgrees, DirectTypeOK, ConsumerTypeOK, ProducerTypeOK, SlotPoolTypeOK
<1>1. /\ mapped \in Slot
      /\ mapped' = NoSlot
      /\ UNCHANGED <<slots, pc, held, tasks>>
  BY DEF ReleaseFrame
<1>2. /\ Len(releases) \in Nat
      /\ Len(releases') = Len(releases) + 1
      /\ \A k \in 1 .. Len(releases) : releases'[k] = releases[k]
      /\ releases'[Len(releases) + 1] = mapped
  BY <1>1, AppendElements DEF ReleaseFrame
<1>3. \A i : (InReleases(i))' <=> InReleases(i) \/ i = mapped
  <2>1. 1 .. Len(releases') = (1 .. Len(releases)) \cup {Len(releases) + 1}
    BY <1>2
  <2> QED  BY <1>2, <2>1 DEF InReleases
<1>4. \A i : (InTasks(i))' <=> InTasks(i)
  BY <1>1 DEF InTasks
<1>5. \A i \in Slot : (Lent(i))' <=> Lent(i)
  BY <1>1, <1>3, <1>4, SlotFacts DEF Lent
<1>6. OneWriterPerSlot'
  BY <1>1 DEF OneWriterPerSlot
<1>7. OneReferencePerSlot'
  <2>1. ~ InTasks(mapped) /\ ~ InReleases(mapped)
    BY <1>1 DEF OneReferencePerSlot
  <2>2. \A j, k \in 1 .. Len(releases') : releases'[j] = releases'[k] => j = k
    BY <1>2, <2>1 DEF OneReferencePerSlot, InReleases
  <2>3. \A i \in Slot : mapped' # i
    BY <1>1, SlotFacts
  <2> QED  BY <1>1, <1>3, <1>4, <2>1, <2>2, <2>3 DEF OneReferencePerSlot
<1>8. NoWriteWhileLent'
  BY <1>1, <1>5 DEF NoWriteWhileLent, Holding
<1>9. PoolAgrees'
  BY <1>1, <1>5
<1> QED  BY <1>6, <1>7, <1>8, <1>9

(* Closing the consumer only forgets references. *)
LEMMA CloseStep ==
  ASSUME IInv, CloseConsumer
  PROVE  SlotExclusive' /\ PoolAgrees'
<1> USE DEF IInv, SlotExclusive, PoolAgrees, DirectTypeOK, ConsumerTypeOK, ProducerTypeOK, SlotPoolTypeOK
<1>1. \A i : ~ (InTasks(i))'
  BY DEF CloseConsumer, InTasks
<1>2. \A i : (InReleases(i))' <=> InReleases(i)
  BY DEF CloseConsumer, InReleases
<1>3. \A i \in Slot : (Lent(i))' => Lent(i)
  BY <1>1, <1>2, SlotFacts DEF Lent, CloseConsumer
<1>4. OneWriterPerSlot' /\ NoWriteWhileLent' /\ PoolAgrees'
  BY <1>3 DEF OneWriterPerSlot, NoWriteWhileLent, CloseConsumer, Holding
<1>5. OneReferencePerSlot'
  BY <1>1, <1>2, SlotFacts DEF OneReferencePerSlot, CloseConsumer
<1> QED  BY <1>4, <1>5

(* Every step of SubmitFrame and of the consumer keeps the slots owned by  *)
(* one holder and the pool in agreement with the holders.                  *)
LEMMA OwnershipInductive == IInv /\ [Next]_vars => SlotExclusive' /\ PoolAgrees'
<1> SUFFICES ASSUME IInv, [Next]_vars PROVE SlotExclusive' /\ PoolAgrees'
  OBVIOUS
<1>1. ASSUME NEW c \in Channels, ProducerStep(c)
      PROVE  SlotExclusive' /\ PoolAgrees'
  <2> USE <1>1 DEF ProducerStep
  <2> held \in [Channels -> Slot \cup {NoSlot}] /\ pc \in [Channels -> {"idle", "polling", "acquire"} \cup Holding]
    BY DEF IInv, DirectTypeOK, ConsumerTypeOK, ProducerTypeOK
  <2>1. CASE StartSubmit(c)
    BY <2>1, QuietStep DEF StartSubmit, Goto, Holding
  <2>2. CASE PollOneRelease(c)
    BY <2>2, PollStep
  <2>3. CASE PollDone(c)
    BY <2>3, QuietStep DEF PollDone, Goto, Holding
  <2>4. CASE Acquire(c)
    BY <2>4, AcquireStep
  <2>5. CASE NoFreeSlot(c)
    <3>1. \A d \in Channels \ {c} : held'[d] = held[d]
      BY <2>5 DEF NoFreeSlot, Return
    <3> QED  BY <2>5, <3>1, QuietStep DEF NoFreeSlot, Return, Goto, Holding
  <2>6. CASE SyncFailed(c)
    BY <2>6, GiveUpStep DEF SyncFailed
  <2>7. CASE Written(c)
    <3>1. Written(c) => pc[c] = "writing"
      BY DEF Written
    <3> QED  BY <2>7, <3>1, QuietStep DEF Written, Goto
  <2>8. CASE SendFrame(c)
    BY <2>8, SendStep
  <2>9. CASE SendFailed(c)
    BY <2>9, GiveUpStep DEF SendFailed
  <2>10. CASE SubmitSlot(c)
    BY <2>10, SubmitStep
  <2> QED  BY <2>1, <2>2, <2>3, <2>4, <2>5, <2>6, <2>7, <2>8, <2>9, <2>10
           DEF SubmitFrameStep
<1>2. CASE UNCHANGED vars
  BY <1>2
  DEF vars, IInv, SlotExclusive, OneWriterPerSlot, OneReferencePerSlot,
      NoWriteWhileLent, PoolAgrees, Lent, InTasks, InReleases, Holding
<1> QED  BY <1>1, <1>2, RecvStep, ReleaseStep, CloseStep DEF Next

(* No two parties share a slot, whatever the interleaving of the channels' *)
(* SubmitFrame calls with each other and with the consumer.                *)
THEOREM SlotsAreExclusive == Spec => []SlotExclusive
<1>1. Init => IInv
  BY InitType, InitOwnership DEF IInv
<1>2. IInv /\ [Next]_vars => IInv'
  BY TypeInductive, OwnershipInductive DEF IInv
<1>3. IInv => SlotExclusive
  BY DEF IInv
<1> QED  BY <1>1, <1>2, <1>3, PTL DEF Spec

(* The pool's table agrees with the parties: AcquireSlot never hands out a *)
(* slot of which a packet or a frame being read still exists.              *)
THEOREM PoolAgreesAlways == Spec => []PoolAgrees
<1>1. Init => IInv
  BY InitType, InitOwnership DEF IInv
<1>2. IInv /\ [Next]_vars => IInv'
  BY TypeInductive, OwnershipInductive DEF IInv
<1>3. IInv => PoolAgrees
  BY DEF IInv
<1> QED  BY <1>1, <1>2, <1>3, PTL DEF Spec

-----------------------------------------------------------------------------
(* With one channel nothing polls between a send and its SubmitSlot, so a  *)
(* release packet is read only after its slot became ON_FLIGHT.            *)

OneChannel == \A c, d \in Channels : c = d

SoloInv ==
  /\ IInv
  /\ NoSlotLeaked
  /\ \A c \in Channels : peerUp /\ pc[c] = "submit" => Lent(held[c])
  /\ \A i \in Slot : Lent(i) =>
       \/ slots[i] = "ON_FLIGHT"
       \/ \E c \in Channels : pc[c] = "submit" /\ held[c] = i

(* After Init no slot is lent, so none is leaked.                          *)
LEMMA InitSolo == Init => SoloInv
  BY InitType, InitOwnership, SlotFacts
  DEF SoloInv, IInv, Init, ProducerInit, ConsumerInit, NoSlotLeaked, SlotPoolInit, Lent,
      InTasks, InReleases

(* With one channel, no step of SubmitFrame loses track of a lent slot.    *)
LEMMA SoloProducer ==
  ASSUME OneChannel, SoloInv, IInv', NEW c \in Channels, ProducerStep(c)
  PROVE  SoloInv'
<1> USE DEF ProducerStep
<1>0. /\ held \in [Channels -> Slot \cup {NoSlot}]
      /\ pc \in [Channels -> {"idle", "polling", "acquire"} \cup Holding]
      /\ slots \in [Slot -> SlotState]
      /\ \A d \in Channels : d = c
      /\ pc[c] \in Holding => held[c] \in Slot /\ slots[held[c]] = "IN_USE"
  BY DEF SoloInv, IInv, PoolAgrees, DirectTypeOK, ConsumerTypeOK, ProducerTypeOK,
         SlotPoolTypeOK, OneChannel
<1>1. CASE UNCHANGED <<slots, tasks, releases>> /\ pc[c] # "submit" /\ pc'[c] # "submit"
  <2>1. \A i : (Lent(i))' <=> Lent(i)
    BY <1>1 DEF Lent, InTasks, InReleases
  <2>2. UNCHANGED peerUp
    BY DEF SubmitFrameStep, StartSubmit, PollOneRelease, PollDone, Acquire,
           NoFreeSlot, SyncFailed, Written, SendFrame, SendFailed, SubmitSlot
  <2> QED  BY <1>0, <1>1, <2>1, <2>2 DEF SoloInv, NoSlotLeaked
<1>2. CASE PollOneRelease(c)
  <2> DEFINE r == Head(releases)
  <2>1. /\ r \in Slot
        /\ r = releases[1]
        /\ Len(releases) \in Nat \ {0}
        /\ Len(releases') = Len(releases) - 1
        /\ \A k \in 1 .. Len(releases) - 1 : releases'[k] = releases[k + 1]
    BY <1>2, TailElements
    DEF PollOneRelease, SoloInv, IInv, DirectTypeOK, ConsumerTypeOK, ProducerTypeOK
  <2>2. /\ pc[c] = "polling"
        /\ slots' = Released(r)
        /\ UNCHANGED <<pc, held, tasks, mapped, peerUp>>
    BY <1>2 DEF PollOneRelease
  <2> HIDE DEF r
  <2>3. \A i : InReleases(i) => (InReleases(i))' \/ i = r
    <3> SUFFICES ASSUME NEW k \in 1 .. Len(releases), k # 1
                 PROVE  \E j \in 1 .. Len(releases') : releases'[j] = releases[k]
      BY <2>1 DEF InReleases
    <3>1. k - 1 \in 1 .. Len(releases') /\ releases'[k - 1] = releases[(k - 1) + 1]
      BY <2>1
    <3> QED  BY <3>1
  <2>4. \A i : Lent(i) => (Lent(i))' \/ i = r
    BY <2>2, <2>3 DEF Lent, InTasks
  <2>5. InReleases(r)
    BY <2>1 DEF InReleases
  <2>6. slots[r] = "ON_FLIGHT"
    BY <1>0, <2>1, <2>2, <2>5 DEF SoloInv, Lent
  <2>7. slots' = [slots EXCEPT ![r] = "IDLE"]
    BY <2>1, <2>2, <2>6 DEF Released, CanRelease
  <2>8. \A i \in Slot : (Lent(i))' => Lent(i) /\ i # r
    <3>1. \A i \in Slot : (Lent(i))' => slots'[i] # "IDLE"
      BY DEF IInv, PoolAgrees
    <3>2. \A i : (InReleases(i))' => InReleases(i)
      BY <2>1 DEF InReleases
    <3>3. \A i : (Lent(i))' => Lent(i)
      BY <2>2, <3>2 DEF Lent, InTasks
    <3> QED  BY <1>0, <2>1, <2>7, <3>1, <3>3
  <2> QED  BY <1>0, <2>1, <2>2, <2>4, <2>7, <2>8 DEF SoloInv, NoSlotLeaked
<1>3. CASE Acquire(c)
  <2>1. PICK i \in Slot :
          /\ pc[c] = "acquire"
          /\ slots[i] = "IDLE"
          /\ slots' = [slots EXCEPT ![i] = "IN_USE"]
          /\ pc' = [pc EXCEPT ![c] = "writing"]
          /\ UNCHANGED <<tasks, releases, mapped, peerUp>>
    BY <1>3 DEF Acquire, IsFirstIdle, Acquired, Goto
  <2>2. \A j : (Lent(j))' <=> Lent(j)
    BY <2>1 DEF Lent, InTasks, InReleases
  <2>3. ~ Lent(i)
    BY <2>1 DEF SoloInv, IInv, PoolAgrees
  <2> QED  BY <1>0, <2>1, <2>2, <2>3 DEF SoloInv, NoSlotLeaked
<1>4. CASE SyncFailed(c) \/ SendFailed(c)
  <2>1. /\ pc[c] \in {"writing", "send"}
        /\ slots' = [slots EXCEPT ![held[c]] = "IDLE"]
        /\ pc' = [pc EXCEPT ![c] = "idle"]
        /\ UNCHANGED <<tasks, releases, mapped, peerUp>>
    BY <1>0, <1>4 DEF SyncFailed, SendFailed, Reverted, CanRevert, Return, Goto, Holding
  <2>2. \A j : (Lent(j))' <=> Lent(j)
    BY <2>1 DEF Lent, InTasks, InReleases
  <2>3. ~ Lent(held[c])
    BY <2>1 DEF SoloInv, IInv, SlotExclusive, NoWriteWhileLent
  <2> QED  BY <1>0, <2>1, <2>2, <2>3 DEF SoloInv, NoSlotLeaked, Holding
<1>5. CASE SendFrame(c)
  <2> DEFINE h == held[c]
  <2>1. /\ pc[c] = "send"
        /\ pc' = [pc EXCEPT ![c] = "submit"]
        /\ UNCHANGED <<slots, held, releases, mapped, peerUp>>
        /\ h \in Slot
    BY <1>0, <1>5 DEF SendFrame, Goto, Holding
  <2>2. /\ Len(tasks) \in Nat
        /\ Len(tasks') = Len(tasks) + 1
        /\ \A k \in 1 .. Len(tasks) : tasks'[k] = tasks[k]
        /\ tasks'[Len(tasks) + 1] = h
    BY <1>5, <2>1, AppendElements
    DEF SendFrame, SoloInv, IInv, DirectTypeOK, ConsumerTypeOK, ProducerTypeOK
  <2> HIDE DEF h
  <2>3. \A i : (InTasks(i))' <=> InTasks(i) \/ i = h
    <3>1. 1 .. Len(tasks') = (1 .. Len(tasks)) \cup {Len(tasks) + 1}
      BY <2>2
    <3> QED  BY <2>2, <3>1 DEF InTasks
  <2>4. \A i : (Lent(i))' <=> Lent(i) \/ i = h
    BY <2>1, <2>3 DEF Lent, InReleases
  <2>5. /\ pc'[c] = "submit"
        /\ held'[c] = h
    BY <1>0, <2>1 DEF h
  <2> QED  BY <1>0, <2>1, <2>4, <2>5 DEF SoloInv, NoSlotLeaked
<1>6. CASE SubmitSlot(c)
  <2>1. /\ pc[c] = "submit"
        /\ held[c] \in Slot
        /\ slots' = [slots EXCEPT ![held[c]] = "ON_FLIGHT"]
        /\ pc' = [pc EXCEPT ![c] = "idle"]
        /\ UNCHANGED <<tasks, releases, mapped, peerUp>>
    BY <1>0, <1>6 DEF SubmitSlot, Submitted, CanSubmit, Return, Goto, Holding
  <2>2. \A j : (Lent(j))' <=> Lent(j)
    BY <2>1 DEF Lent, InTasks, InReleases
  <2> QED  BY <1>0, <2>1, <2>2 DEF SoloInv, NoSlotLeaked
<1>7. CASE StartSubmit(c) \/ PollDone(c) \/ NoFreeSlot(c) \/ Written(c)
  <2>1. /\ UNCHANGED <<slots, tasks, releases>>
        /\ pc[c] # "submit"
        /\ pc'[c] # "submit"
    BY <1>0, <1>7, DirectAssumption
    DEF StartSubmit, PollDone, NoFreeSlot, Written, Return, Goto
  <2> QED  BY <1>1, <2>1
<1> QED  BY <1>2, <1>3, <1>4, <1>5, <1>6, <1>7 DEF SubmitFrameStep

(* No step of RecvFrame, ReleaseFrame or Shutdown leaks a slot while the   *)
(* consumer is connected.                                                  *)
LEMMA SoloConsumer ==
  ASSUME SoloInv, IInv', RecvFrame \/ ReleaseFrame \/ CloseConsumer
  PROVE  SoloInv'
<1> USE DEF SoloInv, IInv, DirectTypeOK, ConsumerTypeOK, ProducerTypeOK
<1>1. CASE RecvFrame
  <2> DEFINE r == Head(tasks)
  <2>1. /\ r \in Slot
        /\ r = tasks[1]
        /\ Len(tasks) \in Nat \ {0}
        /\ Len(tasks') = Len(tasks) - 1
        /\ \A k \in 1 .. Len(tasks) - 1 : tasks'[k] = tasks[k + 1]
    BY <1>1, TailElements DEF RecvFrame, MapFrame
  <2>2. /\ mapped = NoSlot
        /\ mapped' = r
        /\ UNCHANGED <<slots, pc, held, releases, peerUp>>
    BY <1>1 DEF RecvFrame, MapFrame
  <2> HIDE DEF r
  <2>3. \A i : InTasks(i) => (InTasks(i))' \/ i = r
    <3> SUFFICES ASSUME NEW k \in 1 .. Len(tasks), k # 1
                 PROVE  \E j \in 1 .. Len(tasks') : tasks'[j] = tasks[k]
      BY <2>1 DEF InTasks
    <3>1. k - 1 \in 1 .. Len(tasks') /\ tasks'[k - 1] = tasks[(k - 1) + 1]
      BY <2>1
    <3> QED  BY <3>1
  <2>4. \A i : (InTasks(i))' => InTasks(i)
    <3> SUFFICES ASSUME NEW k \in 1 .. Len(tasks')
                 PROVE  \E j \in 1 .. Len(tasks) : tasks[j] = tasks'[k]
      BY DEF InTasks
    <3>1. k + 1 \in 1 .. Len(tasks) /\ tasks[k + 1] = tasks'[k]
      BY <2>1
    <3> QED  BY <3>1
  <2>5. InTasks(r)
    BY <2>1 DEF InTasks
  <2>6. \A i \in Slot : (Lent(i))' <=> Lent(i)
    BY <2>2, <2>3, <2>4, <2>5, SlotFacts DEF Lent, InReleases
  <2> QED  BY <2>2, <2>6 DEF NoSlotLeaked, Holding
<1>2. CASE ReleaseFrame
  <2>1. /\ mapped \in Slot
        /\ mapped' = NoSlot
        /\ UNCHANGED <<slots, pc, held, tasks, peerUp>>
    BY <1>2 DEF ReleaseFrame
  <2>2. /\ Len(releases) \in Nat
        /\ Len(releases') = Len(releases) + 1
        /\ \A k \in 1 .. Len(releases) : releases'[k] = releases[k]
        /\ releases'[Len(releases) + 1] = mapped
    BY <1>2, <2>1, AppendElements DEF ReleaseFrame
  <2>3. \A i : (InReleases(i))' <=> InReleases(i) \/ i = mapped
    <3>1. 1 .. Len(releases') = (1 .. Len(releases)) \cup {Len(releases) + 1}
      BY <2>2
    <3> QED  BY <2>2, <3>1 DEF InReleases
  <2>4. \A i \in Slot : (Lent(i))' <=> Lent(i)
    BY <2>1, <2>3, SlotFacts DEF Lent, InTasks
  <2> QED  BY <2>1, <2>4 DEF NoSlotLeaked, Holding
<1>3. CASE CloseConsumer
  <2>1. \A i \in Slot : (Lent(i))' => Lent(i)
    BY <1>3, SlotFacts DEF CloseConsumer, Lent, InTasks, InReleases
  <2> QED  BY <1>3, <2>1 DEF CloseConsumer, NoSlotLeaked
<1> QED  BY <1>1, <1>2, <1>3

(* With one channel the strengthened invariant is kept by every step.      *)
LEMMA SoloInductive == OneChannel /\ SoloInv /\ [Next]_vars => SoloInv'
<1> SUFFICES ASSUME OneChannel, SoloInv, [Next]_vars PROVE SoloInv'
  OBVIOUS
<1>1. IInv'
  BY TypeInductive, OwnershipInductive DEF SoloInv, IInv
<1>2. CASE UNCHANGED vars
  BY <1>1, <1>2
  DEF vars, SoloInv, NoSlotLeaked, Lent, InTasks, InReleases
<1> QED  BY <1>1, <1>2, SoloProducer, SoloConsumer DEF Next

(* With one channel and a live consumer no slot is ever lost to the pool.  *)
(* The run DirectChannel_leak shows that one channel is needed: with two,  *)
(* a release can overtake the SubmitSlot of another channel.               *)
THEOREM OneChannelLeaksNothing ==
  ASSUME OneChannel
  PROVE  Spec => []NoSlotLeaked
<1>1. Init => SoloInv
  BY InitSolo
<1>2. SoloInv /\ [Next]_vars => SoloInv'
  BY SoloInductive
<1>3. SoloInv => NoSlotLeaked
  BY DEF SoloInv
<1> QED  BY <1>1, <1>2, <1>3, PTL DEF Spec

=============================================================================
