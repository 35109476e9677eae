---------------------------- MODULE DirectChannel ----------------------------
(***************************************************************************)
(* The frame channel on its own, outside relay mode: DmaBufProducer sends  *)
(* a task packet per frame over its socket, and a consumer loops over      *)
(* DmaBufConsumer's RecvFrame and ReleaseFrame.  The consumer may be       *)
(* closed at any point; the producer keeps running and never accepts a     *)
(* second one.                                                             *)
(***************************************************************************)
EXTENDS DmaBufConsumer

ASSUME DirectAssumption == RelayMode = FALSE

vars == <<slots, pc, held, tasks, releases, peerUp, mapped>>

(* The slot table, SubmitFrame's locals, the two packet queues and the frame*)
(* being read have their types; a thread past AcquireSlot holds a slot.    *)
DirectTypeOK ==
  /\ ProducerTypeOK
  /\ ConsumerTypeOK

Init ==
  /\ ProducerInit
  /\ ConsumerInit

-----------------------------------------------------------------------------

ProducerStep(c) ==
  /\ SubmitFrameStep(c) \/ SubmitSlot(c)
  /\ UNCHANGED mapped

Next ==
  \/ \E c \in Channels : ProducerStep(c)
  \/ RecvFrame
  \/ ReleaseFrame
  \/ CloseConsumer

(* Frames keep arriving on every channel, and both processes are scheduled. *)
Fairness ==
  /\ \A c \in Channels : WF_vars(ProducerStep(c))
  /\ WF_vars(RecvFrame)
  /\ WF_vars(ReleaseFrame)

Spec == Init /\ [][Next]_vars

FairSpec == Spec /\ Fairness

-----------------------------------------------------------------------------
(* Who holds a slot.  Outside the pool a slot is known to the thread that  *)
(* fills it, and, once its task packet is sent, to whoever has the packet, *)
(* the mapped frame or the release packet made from it.                    *)

InTasks(i) == \E k \in 1 .. Len(tasks) : tasks[k] = i

InReleases(i) == \E k \in 1 .. Len(releases) : releases[k] = i

Lent(i) == InTasks(i) \/ mapped = i \/ InReleases(i)

(* A slot is filled by one thread at a time. *)
OneWriterPerSlot ==
  \A c, d \in Channels :
    pc[c] \in Holding /\ pc[d] \in Holding /\ held[c] = held[d] => c = d

(* At most one packet or mapped frame names a slot. *)
OneReferencePerSlot ==
  /\ \A j, k \in 1 .. Len(tasks) : tasks[j] = tasks[k] => j = k
  /\ \A j, k \in 1 .. Len(releases) : releases[j] = releases[k] => j = k
  /\ \A i \in Slot : ~ (InTasks(i) /\ InReleases(i))
  /\ \A i \in Slot : mapped = i => ~ InTasks(i) /\ ~ InReleases(i)

(* Until its packet is sent, nobody else knows the slot a thread fills. *)
NoWriteWhileLent ==
  \A c \in Channels : pc[c] \in {"writing", "send"} => ~ Lent(held[c])

(* The three parts together: no two parties ever share a slot, whatever    *)
(* the interleaving of the channels' SubmitFrame calls with the consumer.  *)
SlotExclusive == OneWriterPerSlot /\ OneReferencePerSlot /\ NoWriteWhileLent

(* The pool's table and the parties agree: a slot being filled is IN_USE,  *)
(* and a slot the consumer side knows is never IDLE, so that AcquireSlot   *)
(* cannot hand it out again before its release packet is read.             *)
PoolAgrees ==
  /\ \A c \in Channels : pc[c] \in Holding => slots[held[c]] = "IN_USE"
  /\ \A i \in Slot : Lent(i) => slots[i] # "IDLE"

(* SubmitFrame begins with "Try to reclaim released slots first"; with the *)
(* consumer alive, a slot the pool counts as in flight is therefore still  *)
(* named by some packet or mapped frame.  One that is not can never become *)
(* idle again.                                                             *)
NoSlotLeaked ==
  peerUp => \A i \in Slot : slots[i] = "ON_FLIGHT" => Lent(i)

(* Every frame in flight is reclaimed, unless the consumer goes away. *)
SlotsReclaimed ==
  \A i \in Slot : slots[i] = "ON_FLIGHT" ~> (slots[i] = "IDLE" \/ ~ peerUp)

=============================================================================
