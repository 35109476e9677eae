----------------------------- MODULE SceneAlerts -----------------------------
(***************************************************************************)
(* From what a camera sees to the alerts rule_process emits.  The frames   *)
(* of the camera "yard" go through the deduper of its channel, may be      *)
(* dropped by frame_offload, and reach LeftItemRule; the frames of "gate"  *)
(* reach a rule without a memory.  The alerts of both go through one       *)
(* AlertManager.  Messages of a source are handled in their order, and a   *)
(* message is handled before the next one is; the delay between the camera *)
(* and the rules shows in the timestamps only.                             *)
(***************************************************************************)
EXTENDS Deduper, LeftItemRule, AlertManager

CONSTANTS GateKeys,     \* dedup keys the rule of the gate raises
          SharedKeys,   \* keys without a source in them, raised for both
          MaxTime,      \* bound: the latest timestamp
          MaxSkew       \* how much older than another a stamp may arrive

Sources == {"yard", "gate"}

Time == 0 .. MaxTime

Key == Item \cup GateKeys \cup SharedKeys

(* A dedup key contains the name of its rule, so that rules share none.    *)
(* Timestamps are wall-clock times, far from 0 and from the end of their   *)
(* range; a cooldown longer than the grace period would make a left item's *)
(* alert depend on the time of an earlier one.                             *)
ASSUME SceneAlertsAssumption ==
  /\ Keys = Key
  /\ Item \cap (GateKeys \cup SharedKeys) = {}
  /\ Tracks = Persons \cup Bags
  /\ MaxTime \in Nat
  /\ MaxSkew \in Nat
  /\ MaxTime < Wrap
  /\ Cooldown <= Grace

VARIABLES last,         \* the deduper's last_frame_objects_
          view,         \* the frame rule_process handled last
          missed,       \* tracks the camera shows elsewhere than view does
          overrun,      \* the frame that passed last was dropped behind the deduper
          stamp,        \* per source, the timestamp handled last
          items,        \* LeftItemRule's item_states_
          since,        \* per item, when it was first seen unattended
          history,      \* AlertManager's alert_history_
          lastEmit,     \* per key, the timestamp of its last alert
          hasty         \* the keys the last event emitted again within
                        \* their cooldown, with both timestamps

camVars == <<last, view, missed, overrun>>
alertVars == <<history, lastEmit, hasty>>
vars == <<camVars, stamp, items, since, alertVars>>

History == UNION {[S -> Time] : S \in SUBSET Key}

(* The tables map known keys to times; no item is alerted about before its *)
(* timer has been started, and only remembered items have one.             *)
SceneAlertsTypeOK ==
  /\ last \in Frame /\ view \in Frame
  /\ missed \subseteq Tracks
  /\ overrun \in BOOLEAN
  /\ stamp \in [Sources -> Time]
  /\ DOMAIN items \subseteq Item
  /\ \A i \in DOMAIN items :
       /\ items[i] \in [box : Nat \X Nat, start : Time, alerted : BOOLEAN]
       /\ items[i].alerted => items[i].start > 0
  /\ since \in [DOMAIN items -> Time]
  /\ history \in History
  /\ lastEmit \in History
  /\ DOMAIN history \subseteq DOMAIN lastEmit

Init ==
  /\ last = NoObjects
  /\ view = NoObjects
  /\ missed = {}
  /\ overrun = FALSE
  /\ stamp = [s \in Sources |-> 0]
  /\ items = NoItems
  /\ since = NoItems
  /\ history = NoAlerts
  /\ lastEmit = NoAlerts
  /\ hasty = {}

-----------------------------------------------------------------------------

Differs(frame, shown) ==
  {t \in DOMAIN frame : t \notin DOMAIN shown \/ Moved(frame[t], shown[t])}
  \cup (DOMAIN shown \ DOMAIN frame)

(* Whether objects without a track are there matters in a frame without    *)
(* tracks only.                                                            *)
Untracked(frame) == IF DOMAIN frame = {} THEN BOOLEAN ELSE {FALSE}

Newest == Max({stamp[s] : s \in Sources})

(* FrameOffload's time never goes back within a channel; two frames may    *)
(* have the same microsecond.                                              *)
Stamp(s, now) ==
  /\ now >= 1
  /\ now >= stamp[s]
  /\ now + MaxSkew >= Newest
  /\ stamp' = [stamp EXCEPT ![s] = now]

(* processEvent: the alerts the rules raised for one event. *)
ProcessAlerts(raw, now) ==
  LET emitted == Emitted(history, raw, now) IN
  /\ history' \in Processed(history, raw, now)
  /\ lastEmit' = [k \in DOMAIN lastEmit \cup emitted |->
                   IF k \in emitted THEN now ELSE lastEmit[k]]
  /\ hasty' = {<<k, lastEmit[k], now>> :
                 k \in {j \in emitted \cap DOMAIN lastEmit :
                          now >= lastEmit[j] /\ now - lastEmit[j] < Cooldown}}

(* A frame of the yard's camera that the deduper does not pass.  An empty  *)
(* frame is never sent and resets the deduper, so that nothing tells       *)
(* rule_process when the last track leaves; frames without tracks are not  *)
(* held against the view.                                                  *)
FrameDeduped ==
  \E frame \in Frame : \E untracked \in Untracked(frame) :
    /\ ~ Passes(last, frame, untracked)
    /\ last' = Remembered(last, frame, untracked)
    /\ missed' = IF DOMAIN frame = {} THEN {} ELSE Differs(frame, view)
    /\ overrun' = (overrun /\ ~ IsEmpty(frame, untracked))
    /\ UNCHANGED <<view, stamp, items, since, alertVars>>

(* It passes, but does not get to the rules: the leaky queue before        *)
(* frame_offload drops it, SubmitFrame has no slot for it, or its metadata *)
(* is lost behind frame_offload.                                           *)
FrameDropped ==
  \E frame \in Frame : \E untracked \in Untracked(frame) :
    /\ Passes(last, frame, untracked)
    /\ last' = Remembered(last, frame, untracked)
    /\ missed' = Differs(frame, view)
    /\ overrun' = TRUE
    /\ UNCHANGED <<view, stamp, items, since, alertVars>>

(* It reaches the rules. *)
FrameHandled ==
  \E frame \in Frame, now \in Time : \E untracked \in Untracked(frame) :
    /\ Passes(last, frame, untracked)
    /\ last' = Remembered(last, frame, untracked)
    /\ view' = frame
    /\ missed' = {}
    /\ overrun' = FALSE
    /\ Stamp("yard", now)
    /\ \E owners \in SUBSET (DOMAIN frame \cap Persons), shared \in SUBSET SharedKeys :
         /\ items' = Applied(items, frame, owners, now)
         /\ since' = [i \in DOMAIN items' |->
                       IF i \notin Unattended(items, frame, owners) THEN 0
                       ELSE IF i \in DOMAIN since /\ since[i] > 0 THEN since[i]
                       ELSE now]
         /\ ProcessAlerts(LeftItems(items, frame, owners, now) \cup shared, now)

(* A frame of the gate: its rule, without a memory of its own, raises what *)
(* it sees.                                                                *)
GateHandled ==
  \E raw \in SUBSET (GateKeys \cup SharedKeys), now \in Time :
    /\ Stamp("gate", now)
    /\ ProcessAlerts(raw, now)
    /\ UNCHANGED <<camVars, items, since>>

Next == FrameDeduped \/ FrameDropped \/ FrameHandled \/ GateHandled

Spec == Init /\ [][Next]_vars

-----------------------------------------------------------------------------

(* What rule_process saw last is what the camera sees, but for moves too   *)
(* small to count, unless the frame that showed the change was dropped     *)
(* behind the deduper, or no track is in view.  Small moves must not add   *)
(* up: the deduper compares with the last frame it passed, not with the    *)
(* last one.                                                               *)
ViewIsCurrent == missed # {} => overrun

(* A key is not emitted again within its cooldown, unless more keys than   *)
(* the history may hold were emitted around the same time, or the cooldown *)
(* is over by the timestamps of the other source.  An alert stamped before *)
(* the one remembered is always emitted and is not counted as hasty.       *)
CooldownKept ==
  \A r \in hasty :
    LET earlier == r[2]
        around == {k \in DOMAIN lastEmit : lastEmit[k] > earlier - Cooldown - MaxSkew}
    IN
    \/ Newest - earlier >= Cooldown
    \/ OverSoftLimit(Cardinality(around))
    \/ OverHardLimit(Cardinality(around))

(* An item seen without an owner since then, over the grace period, has    *)
(* been reported: no alert of an earlier absence swallows this one.        *)
LeftItemReported ==
  \A i \in DOMAIN items :
    since[i] > 0 /\ stamp["yard"] - since[i] >= Grace
      => i \in DOMAIN lastEmit /\ lastEmit[i] >= since[i] + Grace

(* No item is reported sooner: one whose owner came back in between starts *)
(* its grace period again.                                                 *)
AlarmsAreDue ==
  [][\A i \in Item :
       i \in DOMAIN lastEmit' /\ (i \in DOMAIN lastEmit => lastEmit'[i] # lastEmit[i])
         => since'[i] > 0 /\ lastEmit'[i] - since'[i] >= Grace]_vars

=============================================================================
