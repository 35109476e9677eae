--------------------------- MODULE DmaBufProducer ---------------------------
(***************************************************************************)
(* DmaBufProducer (multi_cam_app/frame_cache/src/producer.cpp) and the     *)
(* socket end it owns (ipc_sender.cpp).  One producer object is shared by  *)
(* the streaming threads of all channels: MultiCamApp hands the same       *)
(* pointer to every ChannelWorker.  SubmitFrame is not atomic; it is cut   *)
(* at each lock it takes and at each system call another party can see:    *)
(*                                                                         *)
(*   idle -> polling -> acquire -> writing -> [send ->] submit -> idle     *)
(*                                                                         *)
(* polling is the loop of PollReleases, whose holder of poll_mutex_ is the *)
(* thread at "polling"; writing covers SYNC_START, the conversion into the *)
(* slot and SYNC_END; send is the blocking send() of the task packet,      *)
(* skipped in relay mode; submit is SlotPool::SubmitSlot.                  *)
(*                                                                         *)
(* Task and release packets carry a slot index and constants, so a packet  *)
(* is the index.  The two directions of the Unix stream socket are the     *)
(* sequences tasks and releases.                                           *)
(***************************************************************************)
EXTENDS SlotPool, Sequences

CONSTANTS Channels,     \* the streaming threads that call SubmitFrame
          RelayMode,    \* Config::relay_mode
          SocketCap     \* task packets the socket holds before send() blocks

ASSUME ProducerAssumption ==
  /\ Channels # {}
  /\ RelayMode \in BOOLEAN
  /\ SocketCap \in Nat \ {0}

VARIABLES pc,           \* where each channel's thread is in SubmitFrame
          held,         \* slot_idx, the local variable of SubmitFrame
          tasks,        \* task packets sent and not yet received
          releases,     \* release packets sent and not yet received
          peerUp        \* the consumer's end of the socket is open

producerVars == <<slots, pc, held, tasks, releases, peerUp>>

NoSlot == -1

Holding == {"writing", "send", "submit"}

ProducerTypeOK ==
  /\ SlotPoolTypeOK
  /\ pc \in [Channels -> {"idle", "polling", "acquire"} \cup Holding]
  /\ held \in [Channels -> Slot \cup {NoSlot}]
  /\ \A c \in Channels : pc[c] \in Holding => held[c] \in Slot
  /\ tasks \in Seq(Slot)
  /\ releases \in Seq(Slot)
  /\ peerUp \in BOOLEAN

(* DmaBufProducer::Init has returned: the pool is allocated, a consumer    *)
(* has connected and received the init packet and the buffer's fd.         *)
ProducerInit ==
  /\ SlotPoolInit
  /\ pc = [c \in Channels |-> "idle"]
  /\ held = [c \in Channels |-> NoSlot]
  /\ tasks = <<>>
  /\ releases = <<>>
  /\ peerUp = TRUE

-----------------------------------------------------------------------------

Goto(c, label) == pc' = [pc EXCEPT ![c] = label]

(* SubmitFrame gives up or is done: slot_idx goes out of scope. *)
Return(c) ==
  /\ Goto(c, "idle")
  /\ held' = [held EXCEPT ![c] = NoSlot]

(* Mutant: SubmitFrame gives up on a full pool before it polls. *)
StartSubmitIfIdle(c) ==
  /\ pc[c] = "idle"
  /\ \E i \in Slot : slots[i] = "IDLE"
  /\ \A d \in Channels : pc[d] # "polling"
  /\ Goto(c, "polling")
  /\ UNCHANGED <<slots, held, tasks, releases, peerUp>>

(* The thread enters SubmitFrame and takes poll_mutex_ in PollReleases. *)
StartSubmit(c) ==
  /\ pc[c] = "idle"
  /\ \A d \in Channels : pc[d] # "polling"
  /\ Goto(c, "polling")
  /\ UNCHANGED <<slots, held, tasks, releases, peerUp>>

(* One turn of the loop: recv a release packet, hand it to ReleaseSlot.    *)
(* The packet is gone whatever ReleaseSlot answers.                        *)
PollOneRelease(c) ==
  /\ pc[c] = "polling"
  /\ releases # <<>>
  /\ slots' = Released(Head(releases))
  /\ releases' = Tail(releases)
  /\ UNCHANGED <<pc, held, tasks, peerUp>>

(* recv with MSG_DONTWAIT finds nothing (or, once the peer has closed and  *)
(* its packets are read, end of file): the loop ends.                      *)
PollDone(c) ==
  /\ pc[c] = "polling"
  /\ releases = <<>>
  /\ Goto(c, "acquire")
  /\ UNCHANGED <<slots, held, tasks, releases, peerUp>>

Acquire(c) ==
  \E i \in Slot :
    /\ pc[c] = "acquire"
    /\ IsFirstIdle(i)
    /\ slots' = Acquired(i)
    /\ held' = [held EXCEPT ![c] = i]
    /\ Goto(c, "writing")
    /\ UNCHANGED <<tasks, releases, peerUp>>

(* "no free slots": the caller drops the frame. *)
NoFreeSlot(c) ==
  /\ pc[c] = "acquire"
  /\ NoneIdle
  /\ Return(c)
  /\ UNCHANGED <<slots, tasks, releases, peerUp>>

(* DMA_BUF_IOCTL_SYNC fails before or after the conversion. *)
SyncFailed(c) ==
  /\ pc[c] = "writing"
  /\ slots' = Reverted(held[c])
  /\ Return(c)
  /\ UNCHANGED <<tasks, releases, peerUp>>

Written(c) ==
  /\ pc[c] = "writing"
  /\ Goto(c, IF RelayMode THEN "submit" ELSE "send")
  /\ UNCHANGED <<slots, held, tasks, releases, peerUp>>

(* send() of the task packet; it blocks while the socket is full. *)
SendFrame(c) ==
  /\ pc[c] = "send"
  /\ peerUp
  /\ Len(tasks) < SocketCap
  /\ tasks' = Append(tasks, held[c])
  /\ Goto(c, "submit")
  /\ UNCHANGED <<slots, held, releases, peerUp>>

SendFailed(c) ==
  /\ pc[c] = "send"
  /\ ~peerUp
  /\ slots' = Reverted(held[c])
  /\ Return(c)
  /\ UNCHANGED <<tasks, releases, peerUp>>

(* SubmitSlot, and the return of SubmitFrame.  It answers true, with the   *)
(* slot in out_slot_index, when the slot was still IN_USE; otherwise the   *)
(* RevertSlot that follows finds the slot in a state it refuses as well.   *)
SubmitSlot(c) ==
  /\ pc[c] = "submit"
  /\ slots' = Submitted(held[c])
  /\ Return(c)
  /\ UNCHANGED <<tasks, releases, peerUp>>

SubmitFrameStep(c) ==
  \/ StartSubmit(c)
  \/ PollOneRelease(c)
  \/ PollDone(c)
  \/ Acquire(c)
  \/ NoFreeSlot(c)
  \/ SyncFailed(c)
  \/ Written(c)
  \/ SendFrame(c)
  \/ SendFailed(c)

(* ReleaseSlotDirect, called for each entry of a frame_done message. *)
ReleaseSlotDirect(i) == slots' = Released(i)

=============================================================================
