------------------------------ MODULE SlotPool ------------------------------
(***************************************************************************)
(* The pool of DMA-BUF slots shared by the capture process and the VLM     *)
(* consumer (multi_cam_app/frame_cache/src/slot_pool.cpp).  Every method   *)
(* of the class runs under its mutex_, so each is one atomic update of     *)
(* slots; the operators give the table a method leaves behind and, for     *)
(* the methods that return bool, the condition for true.  The memory the   *)
(* slots stand for is modelled by the modules that write and read it.      *)
(***************************************************************************)
EXTENDS Integers

CONSTANT NumSlots       \* Config::slot_count

kMaxSlots == 32

(* Init refuses any other number of slots. *)
ASSUME NumSlotsAssumption == NumSlots \in 1 .. kMaxSlots

VARIABLE slots          \* slots_[i].state

Slot == 0 .. NumSlots - 1

SlotState == {"IDLE", "IN_USE", "ON_FLIGHT"}

SlotPoolTypeOK == slots \in [Slot -> SlotState]

SlotPoolInit == slots = [i \in Slot |-> "IDLE"]

-----------------------------------------------------------------------------

(* Mutant: a slot in flight is handed out like an idle one. *)
IsFirstNotInUse(i) ==
  /\ slots[i] # "IN_USE"
  /\ \A j \in Slot : j < i => slots[j] = "IN_USE"

(* AcquireSlot hands out the lowest idle slot, or -1 when there is none. *)
IsFirstIdle(i) ==
  /\ slots[i] = "IDLE"
  /\ \A j \in Slot : j < i => slots[j] # "IDLE"

NoneIdle == \A i \in Slot : slots[i] # "IDLE"

Acquired(i) == [slots EXCEPT ![i] = "IN_USE"]

(* SubmitSlot, ReleaseSlot and RevertSlot each expect one state, and leave *)
(* the table alone (returning false) when the slot is in another.  Their   *)
(* condition is CanX, the table they leave is X.                           *)
CanSubmit(i) == i \in Slot /\ slots[i] = "IN_USE"

Submitted(i) == IF CanSubmit(i) THEN [slots EXCEPT ![i] = "ON_FLIGHT"] ELSE slots

(* Mutant: ReleaseSlot accepts a slot that is still being filled. *)
CanReleaseAnyBusy(i) == i \in Slot /\ slots[i] # "IDLE"

(* Mutant: ReleaseSlot's range check is one short. *)
CanReleaseOneShort(i) == i + 1 \in Slot /\ slots[i] = "ON_FLIGHT"

CanRelease(i) == i \in Slot /\ slots[i] = "ON_FLIGHT"

Released(i) == IF CanRelease(i) THEN [slots EXCEPT ![i] = "IDLE"] ELSE slots

CanRevert(i) == i \in Slot /\ slots[i] = "IN_USE"

Reverted(i) == IF CanRevert(i) THEN [slots EXCEPT ![i] = "IDLE"] ELSE slots

=============================================================================
