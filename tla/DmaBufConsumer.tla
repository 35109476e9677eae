--------------------------- MODULE DmaBufConsumer ---------------------------
(***************************************************************************)
(* DmaBufConsumer (vlm_pipeline/dmabuf_consumer/src/consumer.cpp) with its *)
(* IpcReceiver, the other end of DmaBufProducer's socket.  A consumer is   *)
(* one thread that reads one frame at a time; what tells it which slot to  *)
(* map is the task packet of RecvFrame, or a packet that reached it some   *)
(* other way and is given to MapFrame.                                     *)
(***************************************************************************)
EXTENDS DmaBufProducer

VARIABLE mapped         \* slot of the frame being read, NoSlot between frames

ConsumerTypeOK == mapped \in Slot \cup {NoSlot}

(* DmaBufConsumer::Init has returned. *)
ConsumerInit == mapped = NoSlot

(* MapFrame: a read of the slot begins. *)
MapFrame(i) ==
  /\ peerUp
  /\ mapped = NoSlot
  /\ mapped' = i

(* RecvFrame: receive a task packet and map its slot. *)
RecvFrame ==
  /\ tasks # <<>>
  /\ MapFrame(Head(tasks))
  /\ tasks' = Tail(tasks)
  /\ UNCHANGED <<slots, pc, held, releases, peerUp>>

(* Mutant: a frame that was never mapped is released. *)
ReleaseUnmapped ==
  /\ releases' = Append(releases, mapped)
  /\ mapped' = NoSlot
  /\ UNCHANGED <<slots, pc, held, tasks, peerUp>>

(* ReleaseFrame: the read ends, a release packet is sent. *)
ReleaseFrame ==
  /\ mapped # NoSlot
  /\ releases' = Append(releases, mapped)
  /\ mapped' = NoSlot
  /\ UNCHANGED <<slots, pc, held, tasks, peerUp>>

(* Shutdown, or the death of the process.  What the consumer had not       *)
(* received is lost; the release packets it sent stay readable.            *)
CloseConsumer ==
  /\ peerUp
  /\ peerUp' = FALSE
  /\ tasks' = <<>>
  /\ mapped' = NoSlot
  /\ UNCHANGED <<slots, pc, held, releases>>

=============================================================================
