------------------------- MODULE SceneAlerts_proofs -------------------------
(***************************************************************************)
(* Proofs about SceneAlerts, for any persons, bags, places and keys, any   *)
(* grace period, any cooldown not longer than it, and any limits of the    *)
(* history.                                                                *)
(***************************************************************************)
EXTENDS SceneAlerts, FiniteSetTheorems, WellFoundedInduction, TLAPS

-----------------------------------------------------------------------------
(***************************************************************************)
(* The deduper.  Unless a frame was dropped on the way, it remembers what  *)
(* rule_process has seen, or nothing since a frame without objects.        *)
(***************************************************************************)

Remembers == overrun \/ last = view \/ last = NoObjects

ViewInv == ViewIsCurrent /\ Remembers

(* A frame that is not interesting differs from the remembered one by      *)
(* small moves only.                                                       *)
LEMMA DullFramesDiffer ==
  ASSUME NEW frame, NEW shown, ~ IsInteresting(shown, frame)
  PROVE  Differs(frame, shown) = {}
  BY DEF IsInteresting, Differs

LEMMA NoObjectsHasNone == DOMAIN NoObjects = {}
  BY DEF NoObjects

LEMMA DedupedKeepsView ==
  ASSUME ViewInv, FrameDeduped
  PROVE  ViewInv'
<1>1. PICK frame \in Frame : \E untracked \in Untracked(frame) :
        /\ ~ Passes(last, frame, untracked)
        /\ last' = Remembered(last, frame, untracked)
        /\ missed' = IF DOMAIN frame = {} THEN {} ELSE Differs(frame, view)
        /\ overrun' = (overrun /\ ~ IsEmpty(frame, untracked))
        /\ UNCHANGED <<view, stamp, items, since, alertVars>>
  BY DEF FrameDeduped
<1>2. PICK untracked \in Untracked(frame) :
        /\ ~ Passes(last, frame, untracked)
        /\ last' = Remembered(last, frame, untracked)
        /\ missed' = IF DOMAIN frame = {} THEN {} ELSE Differs(frame, view)
        /\ overrun' = (overrun /\ ~ IsEmpty(frame, untracked))
        /\ UNCHANGED <<view, stamp, items, since, alertVars>>
  BY <1>1
<1>3. CASE IsEmpty(frame, untracked)
  BY <1>2, <1>3 DEF ViewInv, ViewIsCurrent, Remembers, Remembered, IsEmpty
<1>4. CASE ~ IsEmpty(frame, untracked)
  <2>1. ~ IsInteresting(last, frame)
    BY <1>2, <1>4 DEF Passes
  <2>2. last' = last /\ view' = view /\ (overrun => overrun')
    BY <1>2, <1>4, <2>1 DEF Remembered
  <2>3. Remembers'
    BY <2>2 DEF ViewInv, Remembers
  <2>4. ViewIsCurrent'
    <3>1. CASE DOMAIN frame = {}
      BY <1>2, <3>1 DEF ViewIsCurrent
    <3>2. CASE DOMAIN frame # {}
      <4>1. last # NoObjects
        BY <2>1, <3>2, NoObjectsHasNone DEF IsInteresting
      <4>2. CASE overrun
        BY <2>2, <4>2 DEF ViewIsCurrent
      <4>3. CASE last = view
        <5>1. Differs(frame, view) = {}
          BY <2>1, <4>3, DullFramesDiffer
        <5> QED  BY <1>2, <3>2, <5>1 DEF ViewIsCurrent
      <4> QED  BY <4>1, <4>2, <4>3 DEF ViewInv, Remembers
    <3> QED  BY <3>1, <3>2
  <2> QED  BY <2>3, <2>4 DEF ViewInv
<1> QED  BY <1>3, <1>4

LEMMA HandledKeepsView ==
  ASSUME FrameHandled
  PROVE  ViewInv'
<1>1. PICK frame \in Frame : \E untracked \in Untracked(frame) :
        /\ Passes(last, frame, untracked)
        /\ last' = Remembered(last, frame, untracked)
        /\ view' = frame
        /\ missed' = {}
  BY DEF FrameHandled
<1>2. last' = frame
  BY <1>1 DEF Passes, Remembered
<1> QED  BY <1>1, <1>2 DEF ViewInv, ViewIsCurrent, Remembers

LEMMA NextView == ViewInv /\ [Next]_vars => ViewInv'
<1> SUFFICES ASSUME ViewInv, [Next]_vars
             PROVE  ViewInv'
  OBVIOUS
<1>1. CASE FrameDeduped
  BY <1>1, DedupedKeepsView
<1>2. CASE FrameDropped
  BY <1>2 DEF FrameDropped, ViewInv, ViewIsCurrent, Remembers
<1>3. CASE FrameHandled
  BY <1>3, HandledKeepsView
<1>4. CASE GateHandled
  BY <1>4 DEF GateHandled, camVars, ViewInv, ViewIsCurrent, Remembers
<1>5. CASE UNCHANGED vars
  BY <1>5 DEF vars, camVars, ViewInv, ViewIsCurrent, Remembers
<1> QED  BY <1>1, <1>2, <1>3, <1>4, <1>5 DEF Next

(* However many small moves an object makes, rule_process knows where it   *)
(* is, but for the last small one, unless the frame that passed last was   *)
(* dropped behind the deduper.                                             *)
THEOREM ViewStaysCurrent == Spec => []ViewIsCurrent
<1>1. Init => ViewInv
  BY DEF Init, ViewInv, ViewIsCurrent, Remembers
<1>2. ViewInv => ViewIsCurrent
  BY DEF ViewInv
<1> QED  BY <1>1, <1>2, NextView, PTL DEF Spec

-----------------------------------------------------------------------------
(***************************************************************************)
(* What AlertManager does to its history.                                  *)
(***************************************************************************)

(* Trimming forgets keys; it changes no time. *)
LEMMA TrimmedKeeps ==
  ASSUME NEW h, NEW n, NEW g \in Trimmed(h, n)
  PROVE  DOMAIN g \subseteq DOMAIN h /\ \A k \in DOMAIN g : g[k] = h[k]
  BY DEF Trimmed, Keep

LEMMA UnexpiredKeeps ==
  ASSUME NEW h, NEW now
  PROVE  /\ DOMAIN Unexpired(h, now) \subseteq DOMAIN h
         /\ \A k \in DOMAIN Unexpired(h, now) : Unexpired(h, now)[k] = h[k]
  BY DEF Unexpired, Keep

LEMMA CleanedUpKeeps ==
  ASSUME NEW h, NEW now, NEW g \in CleanedUp(h, now)
  PROVE  DOMAIN g \subseteq DOMAIN h /\ \A k \in DOMAIN g : g[k] = h[k]
<1> DEFINE young == Unexpired(h, now)
<1>1. CASE g = h
  BY <1>1
<1>2. CASE g \in Trimmed(young, DesiredSize(Cardinality(DOMAIN young)))
  <2>1. DOMAIN g \subseteq DOMAIN young /\ \A k \in DOMAIN g : g[k] = young[k]
    BY <1>2, TrimmedKeeps
  <2> QED  BY <2>1, UnexpiredKeeps
<1> QED  BY <1>1, <1>2 DEF CleanedUp

(* The history is a part of the last emissions, before and after. *)
Emissions ==
  /\ DOMAIN history \subseteq DOMAIN lastEmit
  /\ \A k \in DOMAIN history : history[k] = lastEmit[k]

LEMMA ProcessAlertsEmits ==
  ASSUME Emissions, NEW raw, NEW now, ProcessAlerts(raw, now)
  PROVE  /\ Emissions'
         /\ DOMAIN lastEmit' = DOMAIN lastEmit \cup Emitted(history, raw, now)
         /\ \A k \in DOMAIN lastEmit' :
              lastEmit'[k] = IF k \in Emitted(history, raw, now) THEN now ELSE lastEmit[k]
<1> DEFINE updated == Updated(history, raw, now)
<1>1. /\ DOMAIN lastEmit' = DOMAIN lastEmit \cup Emitted(history, raw, now)
      /\ \A k \in DOMAIN lastEmit' :
           lastEmit'[k] = IF k \in Emitted(history, raw, now) THEN now ELSE lastEmit[k]
  BY DEF ProcessAlerts
<1>2. DOMAIN history' \subseteq DOMAIN updated /\ \A k \in DOMAIN history' : history'[k] = updated[k]
  BY CleanedUpKeeps DEF ProcessAlerts, Processed
<1>3. /\ DOMAIN updated = DOMAIN history \cup raw
      /\ \A k \in DOMAIN updated :
           updated[k] = IF k \in Emitted(history, raw, now) THEN now ELSE history[k]
  BY DEF Updated
<1>4. raw \subseteq DOMAIN history \cup Emitted(history, raw, now)
  BY DEF Emitted, InCooldown
<1> QED  BY <1>1, <1>2, <1>3, <1>4 DEF Emissions

(* An alert that was last emitted a cooldown ago or longer goes out. *)
LEMMA OldAlertsGoOut ==
  ASSUME NEW k, NEW raw, k \in raw, NEW now \in 0 .. MaxTime,
         k \in DOMAIN history => history[k] \in Nat /\ now - history[k] >= Cooldown
  PROVE  k \in Emitted(history, raw, now)
<1>1. CASE k \notin DOMAIN history
  BY <1>1 DEF Emitted, InCooldown
<1>2. CASE k \in DOMAIN history
  <2> DEFINE d == now - history[k]
  <2>1. d \in Nat /\ d < Wrap /\ d >= Cooldown /\ Wrap \in Nat
    BY <1>2, SceneAlertsAssumption, AlertManagerAssumption
  <2>2. d % Wrap = d
    BY <2>1
  <2>3. ~ (d % Wrap < Cooldown)
    BY <2>1, <2>2, AlertManagerAssumption
  <2> QED  BY <2>3 DEF Emitted, InCooldown
<1> QED  BY <1>1, <1>2

-----------------------------------------------------------------------------
(***************************************************************************)
(* Left items.  The rule's table, the alert history and the time of an     *)
(* absence agree: an item alerted about has been emitted for this absence; *)
(* one that is not has been emitted for earlier ones only, if at all, so   *)
(* that no cooldown holds its alert back when it is due.                   *)
(***************************************************************************)

IsItemState(item) ==
  /\ item = [box |-> item.box, start |-> item.start, alerted |-> item.alerted]
  /\ item.alerted \in BOOLEAN

Times ==
  /\ stamp \in [Sources -> Time]
  /\ \A k \in DOMAIN lastEmit : lastEmit[k] \in Nat
  /\ \A i \in Item \cap DOMAIN lastEmit : lastEmit[i] <= stamp["yard"]

ItemTable ==
  /\ DOMAIN items \subseteq Item
  /\ DOMAIN since = DOMAIN items
  /\ \A i \in DOMAIN items :
       /\ IsItemState(items[i])
       /\ items[i].start = since[i]
       /\ since[i] \in 0 .. stamp["yard"]

(* What is known of one item, with its timer, its flag, the emissions so   *)
(* far and the time now.                                                   *)
Reported(i, start, alerted, emissions, now) ==
  IF alerted
  THEN start > 0 /\ i \in DOMAIN emissions /\ emissions[i] >= start + Grace
  ELSE start > 0 => /\ now - start < Grace
                    /\ i \in DOMAIN emissions => emissions[i] <= start

AlertInv ==
  /\ Emissions
  /\ Times
  /\ ItemTable
  /\ \A i \in DOMAIN items : Reported(i, since[i], items[i].alerted, lastEmit, stamp["yard"])

LEMMA SeenFacts ==
  ASSUME ItemTable, NEW frame
  PROVE  /\ DOMAIN items \subseteq DOMAIN Seen(items, frame)
         /\ DOMAIN Seen(items, frame) \subseteq Item
         /\ \A i \in DOMAIN Seen(items, frame) :
              /\ IsItemState(Seen(items, frame)[i])
              /\ i \in DOMAIN items =>
                   /\ Seen(items, frame)[i].start = since[i]
                   /\ Seen(items, frame)[i].alerted = items[i].alerted
              /\ i \notin DOMAIN items =>
                   /\ Seen(items, frame)[i].start = 0
                   /\ Seen(items, frame)[i].alerted = FALSE
<1> DEFINE boxes == ItemBoxes(frame)
<1>1. DOMAIN boxes \subseteq Item
  BY DEF ItemBoxes, Item
<1> HIDE DEF boxes
<1>2. Seen(items, frame) =
        [i \in DOMAIN items \cup DOMAIN boxes |->
          IF i \notin DOMAIN items THEN [box |-> boxes[i], start |-> 0, alerted |-> FALSE]
          ELSE IF i \in DOMAIN boxes THEN [items[i] EXCEPT !.box = boxes[i]]
          ELSE items[i]]
  BY DEF Seen, boxes
<1>3. ASSUME NEW i \in DOMAIN items
      PROVE  LET new == [items[i] EXCEPT !.box = boxes[i]] IN
             /\ IsItemState(new)
             /\ new.start = since[i]
             /\ new.alerted = items[i].alerted
  BY <1>3 DEF ItemTable, IsItemState
<1>4. /\ DOMAIN items \subseteq DOMAIN Seen(items, frame)
      /\ DOMAIN Seen(items, frame) \subseteq Item
  BY <1>1, <1>2 DEF ItemTable
<1>5. ASSUME NEW i \in DOMAIN items
      PROVE  /\ IsItemState(Seen(items, frame)[i])
             /\ Seen(items, frame)[i].start = since[i]
             /\ Seen(items, frame)[i].alerted = items[i].alerted
  <2>1. CASE i \in DOMAIN boxes
    BY <1>2, <1>3, <2>1
  <2>2. CASE i \notin DOMAIN boxes
    BY <1>2, <2>2 DEF ItemTable
  <2> QED  BY <2>1, <2>2
<1>6. ASSUME NEW i \in DOMAIN Seen(items, frame), i \notin DOMAIN items
      PROVE  /\ IsItemState(Seen(items, frame)[i])
             /\ Seen(items, frame)[i].start = 0
             /\ Seen(items, frame)[i].alerted = FALSE
  <2>1. Seen(items, frame)[i] = [box |-> boxes[i], start |-> 0, alerted |-> FALSE]
    BY <1>2, <1>6
  <2> QED  BY <2>1 DEF IsItemState
<1> QED  BY <1>4, <1>5, <1>6

(* Examining an item touches its timer and its flag. *)
LEMMA AttendedFacts ==
  ASSUME NEW item, IsItemState(item), NEW now
  PROVE  LET new == Examined(item, TRUE, now) IN
         IsItemState(new) /\ new.start = 0 /\ ~ new.alerted
  BY DEF Examined, IsItemState

LEMMA UnattendedFacts ==
  ASSUME NEW item, IsItemState(item), NEW now
  PROVE  LET new == Examined(item, FALSE, now) IN
         /\ IsItemState(new)
         /\ new.start = Start(item, now)
         /\ new.alerted <=> item.alerted \/ IsDue(item, now)
<1>1. (item.alerted \/ IsDue(item, now)) \in BOOLEAN
  BY DEF IsDue, IsItemState
<1> QED  BY <1>1 DEF Examined, IsItemState

(* The steps of the rules and of AlertManager for one frame. *)
Handled(frame, now, owners, shared) ==
  /\ Stamp("yard", now)
  /\ items' = Applied(items, frame, owners, now)
  /\ since' = [i \in DOMAIN items' |->
                IF i \notin Unattended(items, frame, owners) THEN 0
                ELSE IF i \in DOMAIN since /\ since[i] > 0 THEN since[i]
                ELSE now]
  /\ ProcessAlerts(LeftItems(items, frame, owners, now) \cup shared, now)

(* What they make of it, item by item. *)
LEMMA FrameFacts ==
  ASSUME AlertInv,
         NEW frame, NEW now \in Time, NEW owners, NEW shared \in SUBSET SharedKeys,
         Handled(frame, now, owners, shared)
  PROVE  /\ AlertInv'
         /\ \A i \in Item :
              i \in DOMAIN lastEmit' /\ (i \in DOMAIN lastEmit => lastEmit'[i] # lastEmit[i])
                => since'[i] > 0 /\ lastEmit'[i] - since'[i] >= Grace
<1> DEFINE seen == Seen(items, frame)
           left == Unattended(items, frame, owners)
           raw == LeftItems(items, frame, owners, now) \cup shared
           start == [i \in DOMAIN seen |-> Start(seen[i], now)]
           out == Emitted(history, raw, now)
<1>1. /\ now \in Nat /\ now > 0 /\ now \in 0 .. MaxTime
      /\ stamp["yard"] \in Nat /\ stamp["yard"] <= now
      /\ stamp' = [stamp EXCEPT !["yard"] = now]
      /\ stamp' \in [Sources -> Time] /\ stamp'["yard"] = now
      /\ Grace \in Nat /\ Grace > 0 /\ Cooldown \in Nat /\ Cooldown <= Grace
  BY SceneAlertsAssumption, LeftItemAssumption, AlertManagerAssumption
     DEF Handled, AlertInv, Times, Stamp, Time, Sources
<1>2. /\ DOMAIN items \subseteq DOMAIN seen
      /\ DOMAIN seen \subseteq Item
      /\ left \subseteq DOMAIN seen
      /\ \A i \in DOMAIN seen :
           /\ IsItemState(seen[i])
           /\ i \in DOMAIN items =>
                /\ seen[i].start = since[i]
                /\ seen[i].alerted = items[i].alerted
                /\ since[i] \in Nat /\ since[i] <= stamp["yard"]
           /\ i \notin DOMAIN items => seen[i].start = 0 /\ seen[i].alerted = FALSE
  <2>1. ItemTable
    BY DEF AlertInv
  <2>2. left \subseteq DOMAIN seen
    BY DEF Unattended
  <2>3. \A i \in DOMAIN items : since[i] \in Nat /\ since[i] <= stamp["yard"]
    BY <1>1, <2>1 DEF ItemTable
  <2>4. /\ DOMAIN items \subseteq DOMAIN seen
        /\ DOMAIN seen \subseteq Item
        /\ \A i \in DOMAIN seen :
             /\ IsItemState(seen[i])
             /\ i \in DOMAIN items =>
                  /\ seen[i].start = since[i]
                  /\ seen[i].alerted = items[i].alerted
             /\ i \notin DOMAIN items => seen[i].start = 0 /\ seen[i].alerted = FALSE
    BY <2>1, SeenFacts
  <2> HIDE DEF seen, left
  <2> QED  BY <2>2, <2>3, <2>4
<1>3. \A i \in DOMAIN seen :
        start[i] = IF i \in DOMAIN items /\ since[i] > 0 THEN since[i] ELSE now
  BY <1>1, <1>2 DEF Start
<1>4. /\ DOMAIN items' = DOMAIN seen
      /\ DOMAIN since' = DOMAIN seen
      /\ \A i \in DOMAIN seen :
           /\ items'[i] = Examined(seen[i], i \notin left, now)
           /\ since'[i] = IF i \in left THEN start[i] ELSE 0
  BY <1>3 DEF Handled, Applied, AlertInv, ItemTable
<1>5. \A i \in DOMAIN seen :
        /\ IsItemState(items'[i])
        /\ items'[i].start = since'[i]
        /\ items'[i].alerted <=> i \in left /\ (seen[i].alerted \/ IsDue(seen[i], now))
  <2>1. SUFFICES ASSUME NEW i \in DOMAIN seen
                 PROVE  /\ IsItemState(items'[i])
                        /\ items'[i].start = since'[i]
                        /\ items'[i].alerted <=> i \in left /\ (seen[i].alerted \/ IsDue(seen[i], now))
    OBVIOUS
  <2>2. /\ IsItemState(items'[i])
        /\ items'[i].start = IF i \notin left THEN 0 ELSE Start(seen[i], now)
        /\ items'[i].alerted <=> ~ (i \notin left) /\ (seen[i].alerted \/ IsDue(seen[i], now))
    <3> HIDE DEF left, seen
    <3>1. IsItemState(seen[i]) /\ items'[i] = Examined(seen[i], i \notin left, now)
      BY <1>2, <1>4
    <3>2. CASE i \notin left
      <4>1. items'[i] = Examined(seen[i], TRUE, now)
        BY <3>1, <3>2
      <4> QED  BY <3>1, <3>2, <4>1, AttendedFacts
    <3>3. CASE i \in left
      <4>1. items'[i] = Examined(seen[i], FALSE, now)
        BY <3>1, <3>3
      <4>2. LET new == Examined(seen[i], FALSE, now) IN
              /\ IsItemState(new)
              /\ new.start = Start(seen[i], now)
              /\ new.alerted <=> seen[i].alerted \/ IsDue(seen[i], now)
        BY <3>1, UnattendedFacts
      <4> QED  BY <3>3, <4>1, <4>2
    <3> QED  BY <3>2, <3>3
  <2>3. since'[i] = IF i \in left THEN Start(seen[i], now) ELSE 0
    BY <1>4
  <2> HIDE DEF left, seen
  <2> QED  BY <2>2, <2>3
<1>6. ItemTable'
  BY <1>1, <1>2, <1>3, <1>4, <1>5 DEF ItemTable
<1>7. \A i \in Item : i \in raw <=> i \in left /\ IsDue(seen[i], now)
  BY SceneAlertsAssumption DEF LeftItems
<1>8. \A i \in DOMAIN seen :
        IsDue(seen[i], now) <=> ~ seen[i].alerted /\ now - start[i] >= Grace
  BY DEF IsDue
<1> HIDE DEF seen, left, start
<1>9. ASSUME NEW i \in Item, i \in raw
      PROVE  i \in out
  <2>1. /\ i \in DOMAIN seen /\ i \in left
        /\ ~ seen[i].alerted /\ now - start[i] >= Grace
    BY <1>2, <1>7, <1>8, <1>9
  <2>2. i \in DOMAIN items /\ since[i] > 0 /\ start[i] = since[i]
    BY <1>1, <1>3, <2>1
  <2>3. i \in DOMAIN lastEmit => lastEmit[i] \in Nat /\ lastEmit[i] <= since[i]
    BY <1>2, <2>1, <2>2 DEF AlertInv, Reported, Times
  <2>4. i \in DOMAIN history => history[i] \in Nat /\ now - history[i] >= Cooldown
    BY <1>1, <1>2, <2>1, <2>2, <2>3 DEF AlertInv, Emissions
  <2> QED  BY <1>1, <1>9, <2>4, OldAlertsGoOut
<1>10. /\ Emissions'
       /\ DOMAIN lastEmit' = DOMAIN lastEmit \cup out
       /\ \A k \in DOMAIN lastEmit' : lastEmit'[k] = IF k \in out THEN now ELSE lastEmit[k]
  BY ProcessAlertsEmits DEF Handled, AlertInv
<1>11. out \subseteq raw
  BY DEF Emitted
<1> HIDE DEF raw, out
<1>12. Times'
  BY <1>1, <1>10 DEF AlertInv, Times
<1>13. ASSUME NEW i \in DOMAIN items'
       PROVE  Reported(i, since'[i], items'[i].alerted, lastEmit', stamp'["yard"])
  <2>1. i \in DOMAIN seen /\ i \in Item
    BY <1>2, <1>4, <1>13
  <2>2. CASE i \notin left
    <3>1. since'[i] = 0 /\ ~ items'[i].alerted
      BY <1>4, <1>5, <2>1, <2>2
    <3> QED  BY <3>1 DEF Reported
  <2>3. CASE i \in left /\ IsDue(seen[i], now)
    <3>1. i \in out
      BY <1>7, <1>9, <2>1, <2>3
    <3>2. i \in DOMAIN lastEmit' /\ lastEmit'[i] = now
      BY <1>10, <3>1
    <3>3. since'[i] = start[i] /\ start[i] \in Nat /\ start[i] > 0 /\ now - start[i] >= Grace
      BY <1>1, <1>2, <1>3, <1>4, <1>8, <2>1, <2>3
    <3>4. lastEmit'[i] >= since'[i] + Grace
      BY <1>1, <3>2, <3>3
    <3>5. items'[i].alerted
      BY <1>5, <2>1, <2>3
    <3> QED  BY <3>2, <3>3, <3>4, <3>5 DEF Reported
  <2>4. CASE i \in left /\ ~ IsDue(seen[i], now) /\ seen[i].alerted
    <3>1. i \notin out
      BY <1>7, <1>11, <2>1, <2>4
    <3>2. i \in DOMAIN items /\ items[i].alerted
      BY <1>2, <2>1, <2>4
    <3>3. since[i] > 0 /\ i \in DOMAIN lastEmit /\ lastEmit[i] >= since[i] + Grace
      BY <3>2 DEF AlertInv, Reported
    <3>4. since'[i] = since[i] /\ i \in DOMAIN lastEmit' /\ lastEmit'[i] = lastEmit[i]
      BY <1>3, <1>4, <1>10, <2>1, <2>4, <3>1, <3>2, <3>3
    <3>5. items'[i].alerted
      BY <1>5, <2>1, <2>4
    <3> QED  BY <3>3, <3>4, <3>5 DEF Reported
  <2>5. CASE i \in left /\ ~ IsDue(seen[i], now) /\ ~ seen[i].alerted
    <3>1. i \notin out
      BY <1>7, <1>11, <2>1, <2>5
    <3>2. ~ items'[i].alerted
      BY <1>5, <2>1, <2>5
    <3>3. since'[i] = start[i] /\ start[i] \in Nat /\ now - start[i] < Grace
      BY <1>1, <1>2, <1>3, <1>4, <1>8, <2>1, <2>5
    <3>4. ASSUME i \in DOMAIN lastEmit'
          PROVE  lastEmit'[i] <= start[i]
      <4>1. i \in DOMAIN lastEmit /\ lastEmit'[i] = lastEmit[i]
        BY <1>10, <3>1, <3>4
      <4>2. lastEmit[i] \in Nat /\ lastEmit[i] <= stamp["yard"]
        BY <2>1, <4>1 DEF AlertInv, Times
      <4>3. CASE i \in DOMAIN items /\ since[i] > 0
        BY <1>2, <1>3, <2>1, <2>5, <4>1, <4>3 DEF AlertInv, Reported
      <4>4. CASE ~ (i \in DOMAIN items /\ since[i] > 0)
        BY <1>1, <1>3, <2>1, <4>1, <4>2, <4>4
      <4> QED  BY <4>3, <4>4
    <3> QED  BY <1>1, <3>2, <3>3, <3>4 DEF Reported
  <2> QED  BY <1>2, <2>1, <2>2, <2>3, <2>4, <2>5
<1>14. AlertInv'
  BY <1>6, <1>10, <1>12, <1>13 DEF AlertInv
<1>15. ASSUME NEW i \in Item,
              i \in DOMAIN lastEmit' /\ (i \in DOMAIN lastEmit => lastEmit'[i] # lastEmit[i])
       PROVE  since'[i] > 0 /\ lastEmit'[i] - since'[i] >= Grace
  <2>1. i \in out
    BY <1>10, <1>15
  <2>2. i \in DOMAIN seen /\ i \in left /\ now - start[i] >= Grace
    BY <1>2, <1>7, <1>8, <1>11, <2>1
  <2>3. since'[i] = start[i] /\ start[i] > 0 /\ lastEmit'[i] = now
    BY <1>1, <1>3, <1>4, <1>10, <1>15, <2>1, <2>2
  <2> QED  BY <2>2, <2>3
<1> QED  BY <1>14, <1>15

(* The gate raises no item's alert and does not touch the table. *)
LEMMA GateFacts ==
  ASSUME AlertInv, GateHandled
  PROVE  /\ AlertInv'
         /\ \A i \in Item :
              /\ i \in DOMAIN lastEmit' <=> i \in DOMAIN lastEmit
              /\ i \in DOMAIN lastEmit => lastEmit'[i] = lastEmit[i]
<1>1. PICK raw \in SUBSET (GateKeys \cup SharedKeys), now \in Time :
        /\ Stamp("gate", now)
        /\ ProcessAlerts(raw, now)
        /\ UNCHANGED <<camVars, items, since>>
  BY DEF GateHandled
<1>2. /\ stamp' \in [Sources -> Time] /\ stamp'["yard"] = stamp["yard"]
      /\ now \in Nat
  BY <1>1, SceneAlertsAssumption DEF AlertInv, Times, Stamp, Sources, Time
<1>3. /\ Emissions'
      /\ DOMAIN lastEmit' = DOMAIN lastEmit \cup Emitted(history, raw, now)
      /\ \A k \in DOMAIN lastEmit' :
           lastEmit'[k] = IF k \in Emitted(history, raw, now) THEN now ELSE lastEmit[k]
  BY <1>1, ProcessAlertsEmits DEF AlertInv
<1>4. \A i \in Item : i \notin Emitted(history, raw, now)
  BY <1>1, SceneAlertsAssumption DEF Emitted
<1>5. \A i \in Item :
        /\ i \in DOMAIN lastEmit' <=> i \in DOMAIN lastEmit
        /\ i \in DOMAIN lastEmit => lastEmit'[i] = lastEmit[i]
  BY <1>3, <1>4
<1>6. Times'
  BY <1>2, <1>3, <1>5 DEF AlertInv, Times
<1>7. ItemTable'
  BY <1>1, <1>2 DEF AlertInv, ItemTable
<1>8. ASSUME NEW i \in DOMAIN items
      PROVE  Reported(i, since[i], items[i].alerted, lastEmit', stamp["yard"])
  <2>1. i \in Item /\ Reported(i, since[i], items[i].alerted, lastEmit, stamp["yard"])
    BY DEF AlertInv, ItemTable
  <2> QED  BY <1>5, <2>1 DEF Reported
<1>9. AlertInv'
  BY <1>1, <1>2, <1>3, <1>6, <1>7, <1>8 DEF AlertInv
<1> QED  BY <1>5, <1>9

(* Every step keeps the invariant, and emits no alert of an item early. *)
LEMMA NextAlerts ==
  AlertInv /\ [Next]_vars =>
    /\ AlertInv'
    /\ \A i \in Item :
         i \in DOMAIN lastEmit' /\ (i \in DOMAIN lastEmit => lastEmit'[i] # lastEmit[i])
           => since'[i] > 0 /\ lastEmit'[i] - since'[i] >= Grace
<1> SUFFICES ASSUME AlertInv, [Next]_vars
             PROVE  /\ AlertInv'
                    /\ \A i \in Item :
                         i \in DOMAIN lastEmit' /\ (i \in DOMAIN lastEmit => lastEmit'[i] # lastEmit[i])
                           => since'[i] > 0 /\ lastEmit'[i] - since'[i] >= Grace
  OBVIOUS
<1>1. CASE FrameHandled
  <2>1. PICK frame \in Frame, now \in Time :
          \E owners \in SUBSET (DOMAIN frame \cap Persons), shared \in SUBSET SharedKeys :
            Handled(frame, now, owners, shared)
    BY <1>1 DEF FrameHandled, Handled
  <2>2. PICK owners \in SUBSET (DOMAIN frame \cap Persons), shared \in SUBSET SharedKeys :
          Handled(frame, now, owners, shared)
    BY <2>1
  <2> QED  BY <2>1, <2>2, FrameFacts
<1>2. CASE GateHandled
  BY <1>2, GateFacts
<1>3. ASSUME UNCHANGED <<stamp, items, since, alertVars>>
      PROVE  AlertInv' /\ lastEmit' = lastEmit
  BY <1>3 DEF alertVars, AlertInv, Emissions, Times, ItemTable
<1>4. CASE FrameDeduped \/ FrameDropped
  <2>1. UNCHANGED <<stamp, items, since, alertVars>>
    BY <1>4 DEF FrameDeduped, FrameDropped
  <2> QED  BY <1>3, <2>1
<1>5. CASE UNCHANGED vars
  BY <1>3, <1>5 DEF vars
<1> QED  BY <1>1, <1>2, <1>4, <1>5 DEF Next

LEMMA InitAlerts == Init => AlertInv
<1> SUFFICES ASSUME Init
             PROVE  AlertInv
  OBVIOUS
<1>1. DOMAIN items = {} /\ DOMAIN since = {} /\ DOMAIN history = {} /\ DOMAIN lastEmit = {}
  BY DEF Init, NoItems, NoAlerts
<1>2. stamp \in [Sources -> Time]
  BY SceneAlertsAssumption DEF Init, Time
<1> QED  BY <1>1, <1>2 DEF AlertInv, Emissions, Times, ItemTable

(* An item without an owner for the grace period has been reported, and    *)
(* for this absence: no cooldown and no trimming of the history can hide   *)
(* it, as long as the cooldown is not longer than the grace period.        *)
THEOREM LeftItemsAreReported == Spec => []LeftItemReported
<1>1. AlertInv => LeftItemReported
  <2> SUFFICES ASSUME AlertInv, NEW i \in DOMAIN items,
                      since[i] > 0, stamp["yard"] - since[i] >= Grace
               PROVE  i \in DOMAIN lastEmit /\ lastEmit[i] >= since[i] + Grace
    BY DEF LeftItemReported
  <2>1. Reported(i, since[i], items[i].alerted, lastEmit, stamp["yard"])
    BY DEF AlertInv
  <2>2. since[i] \in Nat /\ stamp["yard"] \in Nat /\ Grace \in Nat
    BY SceneAlertsAssumption, LeftItemAssumption
       DEF AlertInv, ItemTable, Times, Time, Sources
  <2> QED  BY <2>1, <2>2 DEF Reported
<1>2. AlertInv /\ [Next]_vars => AlertInv'
  BY NextAlerts
<1> QED  BY <1>1, <1>2, InitAlerts, PTL DEF Spec

(* No item is reported before its owner has been away for the grace        *)
(* period, whatever happened to it earlier.                                *)
THEOREM AlarmsComeDue == Spec => AlarmsAreDue
<1>1. AlertInv /\ [Next]_vars => AlertInv'
  BY NextAlerts
<1>2. AlertInv /\ [Next]_vars =>
        [\A i \in Item :
           i \in DOMAIN lastEmit' /\ (i \in DOMAIN lastEmit => lastEmit'[i] # lastEmit[i])
             => since'[i] > 0 /\ lastEmit'[i] - since'[i] >= Grace]_vars
  BY NextAlerts
<1> QED  BY <1>1, <1>2, InitAlerts, PTL DEF Spec, AlarmsAreDue

-----------------------------------------------------------------------------
(***************************************************************************)
(* The cooldown.  A key that was emitted and is not in the history was     *)
(* expired, or evicted when the history was over a limit; and a history    *)
(* that is still over a limit, after a trimming that does not cut it down  *)
(* to it, holds recent emissions only.                                     *)
(***************************************************************************)

Around(emissions, t) == {k \in DOMAIN emissions : emissions[k] > t - Cooldown - MaxSkew}

OverLimits(n) == OverSoftLimit(n) \/ OverHardLimit(n)

EmissionTimes ==
  /\ stamp \in [Sources -> Time]
  /\ DOMAIN lastEmit \subseteq Key
  /\ \A k \in DOMAIN lastEmit : lastEmit[k] \in Time /\ lastEmit[k] <= Newest

ForgottenForAReason ==
  \A k \in DOMAIN lastEmit \ DOMAIN history :
    Newest - lastEmit[k] >= Cooldown \/ OverLimits(Cardinality(Around(lastEmit, lastEmit[k])))

CrowdIsRecent ==
  Cooldown > 0 /\ OverLimits(Cardinality(DOMAIN history)) =>
    \A j, k \in DOMAIN history : history[j] > history[k] - Cooldown - MaxSkew

HistoryInv == Emissions /\ EmissionTimes /\ ForgottenForAReason /\ CrowdIsRecent /\ CooldownKept

LEMMA NewestFacts ==
  ASSUME NEW st \in [Sources -> Time], NEW n, n = Max({st[s] : s \in Sources})
  PROVE  /\ n \in Nat
         /\ \A s \in Sources : st[s] <= n
         /\ \E s \in Sources : n = st[s]
<1> DEFINE S == {st[s] : s \in Sources}
<1>1. st["yard"] \in Nat /\ st["gate"] \in Nat
  BY SceneAlertsAssumption DEF Sources, Time
<1>2. S = {st["yard"], st["gate"]}
  BY DEF Sources
<1>3. \E x \in S : \A y \in S : x >= y
  BY <1>1, <1>2
<1>4. n = CHOOSE x \in S : \A y \in S : x >= y
  BY DEF Max
<1>5. n \in S /\ \A y \in S : n >= y
  BY <1>3, <1>4
<1> QED  BY <1>1, <1>2, <1>5 DEF Sources

(* The newest timestamp, as a frame is handled. *)
LEMMA NewestGrows ==
  ASSUME stamp \in [Sources -> Time], NEW s \in Sources, NEW now \in Time, Stamp(s, now)
  PROVE  /\ stamp' \in [Sources -> Time]
         /\ Newest \in Nat /\ Newest' \in Nat /\ now \in Nat
         /\ Newest <= Newest' /\ now <= Newest' /\ Newest <= now + MaxSkew /\ Newest' <= now + MaxSkew
<1>1. /\ stamp' \in [Sources -> Time] /\ stamp'[s] = now
      /\ \A r \in Sources : stamp[r] <= stamp'[r] /\ (r # s => stamp'[r] = stamp[r])
      /\ \A r \in Sources : stamp[r] \in Nat /\ stamp'[r] \in Nat
      /\ now \in Nat /\ MaxSkew \in Nat /\ now + MaxSkew >= Newest
  BY SceneAlertsAssumption DEF Stamp, Time
<1>2. /\ Newest \in Nat
      /\ \A r \in Sources : stamp[r] <= Newest
      /\ \E r \in Sources : Newest = stamp[r]
  <2> DEFINE n == Newest
  <2>1. n = Max({stamp[r] : r \in Sources})
    BY DEF Newest
  <2> HIDE DEF n
  <2>2. n \in Nat /\ (\A r \in Sources : stamp[r] <= n) /\ (\E r \in Sources : n = stamp[r])
    BY <2>1, NewestFacts
  <2> QED  BY <2>2 DEF n
<1>3. /\ Newest' \in Nat
      /\ \A r \in Sources : stamp'[r] <= Newest'
      /\ \E r \in Sources : Newest' = stamp'[r]
  <2> DEFINE n == Newest'
  <2>1. n = Max({stamp'[r] : r \in Sources})
    BY DEF Newest
  <2> HIDE DEF n
  <2>2. n \in Nat /\ (\A r \in Sources : stamp'[r] <= n) /\ (\E r \in Sources : n = stamp'[r])
    BY <1>1, <2>1, NewestFacts
  <2> QED  BY <2>2 DEF n
<1> QED  BY <1>1, <1>2, <1>3

(* The limits are lower bounds. *)
LEMMA LimitsMonotone ==
  ASSUME NEW m \in Nat, NEW n \in Nat, m <= n, OverLimits(m)
  PROVE  OverLimits(n)
  BY AlertManagerAssumption DEF OverLimits, OverSoftLimit, OverHardLimit

LEMMA FiniteEmissions ==
  ASSUME NEW S \in SUBSET Key, NEW T \in SUBSET S
  PROVE  /\ Cardinality(S) \in Nat /\ Cardinality(T) \in Nat
         /\ Cardinality(T) <= Cardinality(S)
         /\ Cardinality(T) = Cardinality(S) => T = S
<1>1. IsFiniteSet(S)
  BY FS_Subset, AlertManagerAssumption, SceneAlertsAssumption
<1> QED  BY <1>1, FS_Subset, FS_CardinalityType

(* A trimming evicts something only when its table is over a limit. *)
LEMMA TrimmedOverLimits ==
  ASSUME NEW h, DOMAIN h \subseteq Key, NEW g \in Trimmed(h, DesiredSize(Cardinality(DOMAIN h))),
         DOMAIN g # DOMAIN h
  PROVE  OverLimits(Cardinality(DOMAIN h))
<1> SUFFICES ASSUME ~ OverLimits(Cardinality(DOMAIN h)) PROVE DOMAIN g = DOMAIN h
  OBVIOUS
<1> DEFINE n == Cardinality(DOMAIN h)
<1>1. DesiredSize(n) = n
  BY DEF DesiredSize, OverLimits
<1>2. PICK S \in SUBSET DOMAIN h : Cardinality(S) = n /\ g = Keep(h, S)
  BY <1>1 DEF Trimmed, AtMost
<1>3. S = DOMAIN h
  BY <1>2, FiniteEmissions
<1> QED  BY <1>2, <1>3 DEF Keep

(* The emissions around a time are not forgotten by what comes later. *)
LEMMA AroundGrows ==
  ASSUME EmissionTimes, EmissionTimes', NEW s \in Sources, NEW now \in Time, Stamp(s, now),
         Cooldown > 0,
         DOMAIN lastEmit \subseteq DOMAIN lastEmit',
         \A k \in DOMAIN lastEmit : lastEmit'[k] \in {lastEmit[k], now},
         NEW t \in Nat, t <= Newest, OverLimits(Cardinality(Around(lastEmit, t)))
  PROVE  OverLimits(Cardinality(Around(lastEmit', t)))
<1>1. Cooldown \in Nat /\ MaxSkew \in Nat /\ Newest \in Nat /\ Newest <= now + MaxSkew /\ now \in Nat
  BY NewestGrows, AlertManagerAssumption, SceneAlertsAssumption DEF EmissionTimes
<1>2. now > t - Cooldown - MaxSkew
  BY <1>1
<1>3. Around(lastEmit, t) \subseteq Around(lastEmit', t) /\ Around(lastEmit', t) \subseteq Key
  BY <1>2 DEF EmissionTimes, Around
<1> DEFINE A == Around(lastEmit, t)
           B == Around(lastEmit', t)
<1> HIDE DEF A, B
<1>4. A \subseteq B /\ B \subseteq Key /\ OverLimits(Cardinality(A))
  BY <1>3 DEF A, B
<1>5. Cardinality(A) \in Nat /\ Cardinality(B) \in Nat /\ Cardinality(A) <= Cardinality(B)
  BY <1>4, FiniteEmissions
<1>6. OverLimits(Cardinality(B))
  BY <1>4, <1>5, LimitsMonotone
<1> QED  BY <1>6 DEF B

(* The rules' alerts for one event go through AlertManager. *)
LEMMA ProcessKeepsHistory ==
  ASSUME HistoryInv, NEW s \in Sources, NEW now \in Time, Stamp(s, now),
         NEW raw \in SUBSET Key, ProcessAlerts(raw, now)
  PROVE  HistoryInv'
<1> DEFINE out == Emitted(history, raw, now)
           h == Updated(history, raw, now)
           clock == IF raw = {} THEN 0 ELSE now
           young == Unexpired(h, clock)
<1>1. /\ stamp' \in [Sources -> Time]
      /\ Newest \in Nat /\ Newest' \in Nat /\ now \in Nat /\ now > 0
      /\ Newest <= Newest' /\ now <= Newest' /\ Newest <= now + MaxSkew /\ Newest' <= now + MaxSkew
      /\ Cooldown \in Nat /\ MaxSkew \in Nat
  <2>1. stamp \in [Sources -> Time]
    BY DEF HistoryInv, EmissionTimes
  <2>2. /\ stamp' \in [Sources -> Time]
        /\ Newest \in Nat /\ Newest' \in Nat /\ now \in Nat
        /\ Newest <= Newest' /\ now <= Newest' /\ Newest <= now + MaxSkew /\ Newest' <= now + MaxSkew
    BY <2>1, NewestGrows
  <2>3. now > 0
    BY <2>2 DEF Stamp
  <2>4. Cooldown \in Nat /\ MaxSkew \in Nat
    BY AlertManagerAssumption, SceneAlertsAssumption
  <2> QED  BY <2>2, <2>3, <2>4
<1>2. /\ Emissions'
      /\ out \subseteq raw
      /\ DOMAIN lastEmit' = DOMAIN lastEmit \cup out
      /\ \A k \in DOMAIN lastEmit' : lastEmit'[k] = IF k \in out THEN now ELSE lastEmit[k]
  BY ProcessAlertsEmits DEF HistoryInv, Emitted
<1>3. EmissionTimes'
  <2>1. /\ DOMAIN lastEmit \subseteq Key /\ raw \subseteq Key
        /\ \A k \in DOMAIN lastEmit : lastEmit[k] \in Time /\ lastEmit[k] <= Newest /\ lastEmit[k] \in Nat
    BY SceneAlertsAssumption DEF HistoryInv, EmissionTimes, Time
  <2>2. DOMAIN lastEmit' \subseteq Key
    BY <1>2, <2>1
  <2>3. \A k \in DOMAIN lastEmit' : lastEmit'[k] \in Time /\ lastEmit'[k] <= Newest'
    <3> HIDE DEF out
    <3> QED  BY <1>1, <1>2, <2>1
  <2> QED  BY <1>1, <2>2, <2>3 DEF EmissionTimes
<1>4. /\ DOMAIN h = DOMAIN history \cup raw
      /\ DOMAIN h \subseteq DOMAIN lastEmit'
      /\ \A k \in DOMAIN h : h[k] = lastEmit'[k]
  <2>1. /\ DOMAIN h = DOMAIN history \cup raw
        /\ \A k \in DOMAIN h : h[k] = IF k \in out THEN now ELSE history[k]
    BY DEF Updated
  <2>2. raw \subseteq DOMAIN history \cup out
    BY DEF Emitted, InCooldown
  <2> HIDE DEF h, out
  <2> QED  BY <2>1, <2>2, <1>2 DEF HistoryInv, Emissions
<1>5. /\ DOMAIN history' \subseteq DOMAIN h
      /\ \A k \in DOMAIN history' : history'[k] = lastEmit'[k]
  <2>1. history' \in CleanedUp(h, clock)
    BY DEF ProcessAlerts, Processed
  <2> HIDE DEF h, clock
  <2>2. DOMAIN history' \subseteq DOMAIN h /\ \A k \in DOMAIN history' : history'[k] = h[k]
    BY <2>1, CleanedUpKeeps
  <2> QED  BY <1>4, <2>2
<1>6. /\ DOMAIN young \subseteq DOMAIN h
      /\ \A k \in DOMAIN young : young[k] = lastEmit'[k]
  BY <1>4, UnexpiredKeeps
<1>7. IF OverLimits(Cardinality(DOMAIN h))
      THEN history' \in Trimmed(young, DesiredSize(Cardinality(DOMAIN young)))
      ELSE history' = h
  BY DEF ProcessAlerts, Processed, CleanedUp, OverLimits
<1>8. ASSUME Cooldown > 0, raw # {}
      PROVE  \A k \in DOMAIN h : k \in DOMAIN young <=> h[k] > now - Cooldown
  BY <1>1, <1>3, <1>4, <1>8 DEF Unexpired, Keep, EmissionTimes, Time
<1>9. raw = {} => /\ DOMAIN h = DOMAIN history /\ DOMAIN young = DOMAIN history
                   /\ \A k \in DOMAIN history : lastEmit'[k] = history[k]
  <2> SUFFICES ASSUME raw = {}
               PROVE  /\ DOMAIN h = DOMAIN history /\ DOMAIN young = DOMAIN history
                      /\ \A k \in DOMAIN history : lastEmit'[k] = history[k]
    OBVIOUS
  <2>1. young = h
    BY DEF Unexpired
  <2> HIDE DEF young, h, out
  <2> QED  BY <2>1, <1>2, <1>4 DEF HistoryInv, Emissions
<1> HIDE DEF young, h, out
<1>10. ASSUME OverLimits(Cardinality(DOMAIN h))
       PROVE  /\ DOMAIN history' \subseteq DOMAIN young
              /\ DOMAIN history' # DOMAIN young => OverLimits(Cardinality(DOMAIN young))
  <2>1. history' \in Trimmed(young, DesiredSize(Cardinality(DOMAIN young)))
    BY <1>7, <1>10
  <2>2. DOMAIN history' \subseteq DOMAIN young
    BY <2>1, TrimmedKeeps
  <2>3. DOMAIN young \subseteq Key
    BY <1>3, <1>4, <1>6 DEF EmissionTimes
  <2> QED  BY <2>1, <2>2, <2>3, TrimmedOverLimits
<1>11. \A k \in DOMAIN lastEmit' : lastEmit'[k] \in Nat /\ lastEmit'[k] <= Newest'
  BY <1>3, SceneAlertsAssumption DEF EmissionTimes, Time

(* What survives the expiry of a table over a limit is recent. *)
<1>12. ASSUME Cooldown > 0, OverLimits(Cardinality(DOMAIN h)),
              NEW j \in DOMAIN young, NEW k \in DOMAIN young
       PROVE  lastEmit'[j] > lastEmit'[k] - Cooldown - MaxSkew
  <2>1. CASE raw = {}
    <3>1. OverLimits(Cardinality(DOMAIN history)) /\ j \in DOMAIN history /\ k \in DOMAIN history
      BY <1>9, <1>12, <2>1
    <3>2. history[j] > history[k] - Cooldown - MaxSkew
      BY <1>12, <3>1 DEF HistoryInv, CrowdIsRecent
    <3> QED  BY <1>9, <2>1, <3>1, <3>2
  <2>2. CASE raw # {}
    <3>1. j \in DOMAIN lastEmit' /\ k \in DOMAIN lastEmit' /\ j \in DOMAIN h
      BY <1>4, <1>6
    <3>2. lastEmit'[j] > now - Cooldown
      BY <1>4, <1>8, <1>12, <2>2, <3>1
    <3> QED  BY <1>1, <1>11, <3>1, <3>2
  <2> QED  BY <2>1, <2>2

(* Entries are forgotten when they expire, or are evicted from a crowd. *)
<1>13. ForgottenForAReason'
  <2> SUFFICES ASSUME NEW k \in DOMAIN lastEmit', k \notin DOMAIN history',
                      ~ (Newest' - lastEmit'[k] >= Cooldown)
               PROVE  OverLimits(Cardinality(Around(lastEmit', lastEmit'[k])))
    BY DEF ForgottenForAReason
  <2> DEFINE t == lastEmit'[k]
  <2>1. t \in Nat /\ t <= Newest' /\ Cooldown > 0 /\ Newest' - t < Cooldown
    BY <1>1, <1>11
  <2>2. CASE k \notin DOMAIN h
    <3>1. k \in DOMAIN lastEmit /\ k \notin DOMAIN history /\ lastEmit[k] = t
      BY <1>2, <1>4, <2>2
    <3>2. t <= Newest /\ Newest - t < Cooldown
      BY <1>1, <2>1, <3>1 DEF HistoryInv, EmissionTimes
    <3>3. OverLimits(Cardinality(Around(lastEmit, t)))
      <4>1. Newest - lastEmit[k] >= Cooldown \/ OverLimits(Cardinality(Around(lastEmit, lastEmit[k])))
        BY <3>1 DEF HistoryInv, ForgottenForAReason
      <4> QED  BY <1>1, <2>1, <3>1, <3>2, <4>1
    <3>4. /\ EmissionTimes
          /\ DOMAIN lastEmit \subseteq DOMAIN lastEmit'
          /\ \A j \in DOMAIN lastEmit : lastEmit'[j] \in {lastEmit[j], now}
      BY <1>2 DEF HistoryInv
    <3> HIDE DEF t
    <3>5. OverLimits(Cardinality(Around(lastEmit', t)))
      BY <1>3, <2>1, <3>2, <3>3, <3>4, AroundGrows
    <3> QED  BY <3>5 DEF t
  <2>3. CASE k \in DOMAIN h
    <3>1. OverLimits(Cardinality(DOMAIN h))
      BY <1>7, <2>3
    <3>2. k \in DOMAIN young
      <4>1. CASE raw = {}
        BY <1>9, <2>3, <4>1
      <4>2. CASE raw # {}
        <5>1. h[k] = t /\ now - t < Cooldown
          BY <1>1, <1>4, <2>1, <2>3
        <5> QED  BY <1>1, <1>8, <2>1, <2>3, <4>2, <5>1
      <4> QED  BY <4>1, <4>2
    <3> DEFINE A == Around(lastEmit', t)
               Y == DOMAIN young
    <3>3. OverLimits(Cardinality(Y))
      BY <1>10, <3>1, <3>2
    <3>4. Y \subseteq A /\ A \subseteq Key
      BY <1>3, <1>4, <1>6, <1>12, <2>1, <3>1, <3>2 DEF Around, EmissionTimes
    <3> HIDE DEF A, Y
    <3>5. Cardinality(A) \in Nat /\ Cardinality(Y) \in Nat /\ Cardinality(Y) <= Cardinality(A)
      BY <3>4, FiniteEmissions
    <3>6. OverLimits(Cardinality(A))
      BY <3>3, <3>5, LimitsMonotone
    <3> QED  BY <3>6 DEF A
  <2> QED  BY <2>2, <2>3

<1>14. CrowdIsRecent'
  <2> SUFFICES ASSUME Cooldown > 0, OverLimits(Cardinality(DOMAIN history')),
                      NEW j \in DOMAIN history', NEW k \in DOMAIN history'
               PROVE  history'[j] > history'[k] - Cooldown - MaxSkew
    BY DEF CrowdIsRecent
  <2>1. OverLimits(Cardinality(DOMAIN h))
    <3> DEFINE A == DOMAIN h
               B == DOMAIN history'
    <3>1. A \subseteq Key /\ B \subseteq A /\ OverLimits(Cardinality(B))
      BY <1>3, <1>4, <1>5 DEF EmissionTimes
    <3> HIDE DEF A, B
    <3>2. Cardinality(A) \in Nat /\ Cardinality(B) \in Nat /\ Cardinality(B) <= Cardinality(A)
      BY <3>1, FiniteEmissions
    <3>3. OverLimits(Cardinality(A))
      BY <3>1, <3>2, LimitsMonotone
    <3> QED  BY <3>3 DEF A
  <2>2. j \in DOMAIN young /\ k \in DOMAIN young
    BY <1>10, <2>1
  <2> QED  BY <1>5, <1>12, <2>1, <2>2

(* A key emitted again within its cooldown was not remembered. *)
<1>15. CooldownKept'
  <2> DEFINE again == {j \in out \cap DOMAIN lastEmit :
                         now >= lastEmit[j] /\ now - lastEmit[j] < Cooldown}
  <2>1. hasty' = {<<k, lastEmit[k], now>> : k \in again}
    BY DEF ProcessAlerts, out
  <2> HIDE DEF again
  <2>2. ASSUME NEW k \in again
        PROVE  \/ Newest' - lastEmit[k] >= Cooldown
               \/ OverLimits(Cardinality(Around(lastEmit', lastEmit[k])))
    <3> DEFINE t == lastEmit[k]
    <3>1. /\ k \in out /\ k \in DOMAIN lastEmit
          /\ t \in Nat /\ t <= Newest /\ now >= t /\ now - t < Cooldown /\ Cooldown > 0
      <4>1. /\ k \in out /\ k \in DOMAIN lastEmit /\ now >= t /\ now - t < Cooldown
        BY <2>2 DEF again
      <4>2. t \in Nat /\ t <= Newest
        BY <4>1, SceneAlertsAssumption DEF HistoryInv, EmissionTimes, Time
      <4> QED  BY <1>1, <4>1, <4>2
    <3>2. k \notin DOMAIN history
      <4> SUFFICES ASSUME k \in DOMAIN history
                   PROVE  FALSE
        OBVIOUS
      <4>1. history[k] = t
        BY DEF HistoryInv, Emissions
      <4>2. ~ InCooldown(history, k, now)
        BY <3>1 DEF out, Emitted
      <4> DEFINE d == now - t
      <4>3. d \in Nat /\ d < Wrap /\ Wrap \in Nat /\ d < Cooldown
        BY <1>1, <3>1, AlertManagerAssumption
      <4>4. d % Wrap = d
        BY <4>3
      <4>5. (now - history[k]) % Wrap < Cooldown
        BY <4>1, <4>3, <4>4
      <4> QED  BY <4>2, <4>5 DEF InCooldown
    <3>3. Newest - t >= Cooldown \/ OverLimits(Cardinality(Around(lastEmit, t)))
      BY <3>1, <3>2 DEF HistoryInv, ForgottenForAReason
    <3>4. CASE Newest - t >= Cooldown
      BY <1>1, <3>1, <3>4
    <3>5. CASE OverLimits(Cardinality(Around(lastEmit, t)))
      <4>1. /\ EmissionTimes
            /\ DOMAIN lastEmit \subseteq DOMAIN lastEmit'
            /\ \A j \in DOMAIN lastEmit : lastEmit'[j] \in {lastEmit[j], now}
        BY <1>2 DEF HistoryInv
      <4> HIDE DEF t
      <4>2. OverLimits(Cardinality(Around(lastEmit', t)))
        BY <1>3, <3>1, <3>5, <4>1, AroundGrows
      <4> QED  BY <4>2 DEF t
    <3> QED  BY <3>3, <3>4, <3>5
  <2>3. ASSUME NEW r \in hasty'
        PROVE  \/ Newest' - r[2] >= Cooldown
               \/ OverLimits(Cardinality(Around(lastEmit', r[2])))
    <3>1. PICK k \in again : r = <<k, lastEmit[k], now>>
      BY <2>1
    <3>2. r[2] = lastEmit[k]
      BY <3>1
    <3> QED  BY <2>2, <3>2
  <2> QED  BY <2>3 DEF CooldownKept, Around, OverLimits
<1> QED  BY <1>2, <1>3, <1>13, <1>14, <1>15 DEF HistoryInv

(* Without an event nothing about the alerts changes. *)
LEMMA StillHistory ==
  ASSUME HistoryInv, UNCHANGED <<stamp, alertVars>>
  PROVE  HistoryInv'
<1>1. stamp' = stamp /\ history' = history /\ lastEmit' = lastEmit /\ hasty' = hasty
  BY DEF alertVars
<1>2. Newest' = Newest
  BY <1>1 DEF Newest
<1>3. Emissions' /\ EmissionTimes' /\ ForgottenForAReason' /\ CrowdIsRecent'
  BY <1>1, <1>2
     DEF HistoryInv, Emissions, EmissionTimes, ForgottenForAReason, CrowdIsRecent
<1>4. CooldownKept'
  BY <1>1, <1>2 DEF HistoryInv, CooldownKept
<1> QED  BY <1>3, <1>4 DEF HistoryInv

LEMMA NextHistory == AlertInv /\ HistoryInv /\ [Next]_vars => HistoryInv'
<1> SUFFICES ASSUME AlertInv, HistoryInv, [Next]_vars
             PROVE  HistoryInv'
  OBVIOUS
<1>1. CASE FrameHandled
  <2>1. PICK frame \in Frame, now \in Time :
          \E owners \in SUBSET (DOMAIN frame \cap Persons), shared \in SUBSET SharedKeys :
            Handled(frame, now, owners, shared)
    BY <1>1 DEF FrameHandled, Handled
  <2>2. PICK owners \in SUBSET (DOMAIN frame \cap Persons), shared \in SUBSET SharedKeys :
          Handled(frame, now, owners, shared)
    BY <2>1
  <2> DEFINE raw == LeftItems(items, frame, owners, now) \cup shared
  <2>3. LeftItems(items, frame, owners, now) \subseteq DOMAIN Seen(items, frame)
    BY DEF LeftItems, Unattended
  <2>4. DOMAIN Seen(items, frame) \subseteq Item
    BY SeenFacts DEF AlertInv
  <2>5. raw \in SUBSET Key
    BY <2>3, <2>4 DEF Key
  <2>6. Stamp("yard", now) /\ ProcessAlerts(raw, now)
    BY <2>2 DEF Handled
  <2> HIDE DEF raw
  <2> QED  BY <2>5, <2>6, ProcessKeepsHistory DEF Sources
<1>2. CASE GateHandled
  <2>1. PICK raw \in SUBSET (GateKeys \cup SharedKeys), now \in Time :
          Stamp("gate", now) /\ ProcessAlerts(raw, now)
    BY <1>2 DEF GateHandled
  <2>2. raw \in SUBSET Key
    BY DEF Key
  <2> QED  BY <2>1, <2>2, ProcessKeepsHistory DEF Sources
<1>3. CASE FrameDeduped \/ FrameDropped
  <2>1. UNCHANGED <<stamp, alertVars>>
    BY <1>3 DEF FrameDeduped, FrameDropped
  <2> QED  BY <2>1, StillHistory
<1>4. CASE UNCHANGED vars
  BY <1>4, StillHistory DEF vars
<1> QED  BY <1>1, <1>2, <1>3, <1>4 DEF Next

LEMMA InitHistory == Init => HistoryInv
<1> SUFFICES ASSUME Init
             PROVE  HistoryInv
  OBVIOUS
<1>1. DOMAIN history = {} /\ DOMAIN lastEmit = {} /\ hasty = {}
  BY DEF Init, NoAlerts
<1>2. stamp \in [Sources -> Time]
  BY SceneAlertsAssumption DEF Init, Time
<1> QED  BY <1>1, <1>2
        DEF HistoryInv, Emissions, EmissionTimes, ForgottenForAReason, CrowdIsRecent, CooldownKept

(* However the alerts of the sources interleave and whatever the limits of *)
(* the history, a key is emitted twice within its cooldown only when the   *)
(* newest timestamp says the cooldown is over, or when more keys than a    *)
(* limit allows were emitted around the time of the first.                 *)
THEOREM CooldownsAreKept == Spec => []CooldownKept
<1>1. AlertInv /\ HistoryInv /\ [Next]_vars => AlertInv' /\ HistoryInv'
  BY NextAlerts, NextHistory
<1>2. Init => AlertInv /\ HistoryInv
  BY InitAlerts, InitHistory
<1>3. HistoryInv => CooldownKept
  BY DEF HistoryInv
<1> QED  BY <1>1, <1>2, <1>3, PTL DEF Spec

-----------------------------------------------------------------------------
(***************************************************************************)
(* The type invariant.  The merged bag's box is the hull of finitely many  *)
(* places, of which one is the least and one the greatest.                 *)
(***************************************************************************)

LEMMA HasLeast ==
  ASSUME NEW S \in SUBSET Nat, S # {}
  PROVE  \E x \in S : \A y \in S : x <= y
<1> DEFINE R == OpToRel(<, Nat)
<1>1. IsWellFoundedOn(R, Nat)
  BY NatLessThanWellFounded
<1>2. \A x, y \in Nat : <<x, y>> \in R <=> x < y
  BY DEF OpToRel
<1> HIDE DEF R
<1>3. PICK x \in S : \A y \in S : ~ (<<y, x>> \in R)
  BY <1>1, WFMin
<1>4. ASSUME NEW y \in S
      PROVE  x <= y
  <2>1. x \in Nat /\ y \in Nat
    OBVIOUS
  <2>2. <<y, x>> \in R <=> y < x
    BY <1>2, <2>1, Zenon
  <2>3. ~ (<<y, x>> \in R)
    BY <1>3, Zenon
  <2> QED  BY <2>1, <2>2, <2>3
<1> QED  BY <1>4

(* Of the finite sets without a greatest element a smallest one would have *)
(* an element without which it had none either.                            *)
LEMMA HasGreatest ==
  ASSUME NEW U \in SUBSET Nat, IsFiniteSet(U), U # {}
  PROVE  \E x \in U : \A y \in U : x >= y
<1> DEFINE Unbounded(S) == S # {} /\ IsFiniteSet(S) /\ \A x \in S : \E y \in S : x < y
           sizes == {n \in Nat : \E S \in SUBSET Nat : Cardinality(S) = n /\ Unbounded(S)}
<1> SUFFICES ASSUME \A x \in U : \E y \in U : ~ (x >= y)
             PROVE  FALSE
  OBVIOUS
<1>1. Unbounded(U)
  OBVIOUS
<1>2. sizes # {}
  BY <1>1, FS_CardinalityType
<1>3. PICK n \in sizes : \A m \in sizes : n <= m
  BY <1>2, HasLeast
<1>4. PICK S \in SUBSET Nat : Cardinality(S) = n /\ Unbounded(S)
  OBVIOUS
<1>5. PICK a \in S : TRUE
  BY <1>4
<1>6. IsFiniteSet(S \ {a}) /\ Cardinality(S \ {a}) = n - 1
  BY <1>4, <1>5, FS_RemoveElement
<1>7. PICK b \in S : a < b
  BY <1>4, <1>5
<1>8. ASSUME NEW x \in S \ {a}
      PROVE  \E y \in S \ {a} : x < y
  <2>1. PICK y \in S : x < y
    BY <1>4
  <2>2. CASE y # a
    BY <2>1, <2>2
  <2>3. CASE y = a
    BY <1>7, <2>1, <2>3
  <2> QED  BY <2>2, <2>3
<1>9. Unbounded(S \ {a})
  BY <1>5, <1>6, <1>7, <1>8
<1>10. n - 1 \in Nat
  BY <1>6, FS_CardinalityType
<1>11. n - 1 \in sizes
  BY <1>6, <1>9, <1>10
<1> QED  BY <1>3, <1>10, <1>11

LEMMA FrameOfTracks ==
  ASSUME NEW frame \in Frame
  PROVE  /\ DOMAIN frame \subseteq Tracks
         /\ \A t \in DOMAIN frame : frame[t] \in Nat
<1>1. PICK S \in SUBSET Tracks : frame \in [S -> UNION {Places[t] : t \in S}]
                                 /\ \A t \in S : frame[t] \in Places[t]
  BY DEF Frame
<1> QED  BY <1>1, DeduperAssumption

LEMMA BoxesAreIntervals ==
  ASSUME NEW frame \in Frame, NEW i \in DOMAIN ItemBoxes(frame)
  PROVE  ItemBoxes(frame)[i] \in Nat \X Nat
<1> DEFINE bags == DOMAIN frame \cap Bags
           places == {frame[b] : b \in bags}
<1>1. bags \subseteq Tracks /\ places \subseteq Nat
  BY FrameOfTracks
<1>2. CASE ~ MergeBags
  BY <1>1, <1>2, FrameOfTracks DEF ItemBoxes
<1>3. CASE MergeBags
  <2>1. places # {} /\ ItemBoxes(frame)[i] = <<Min(places), Max(places)>>
    BY <1>3 DEF ItemBoxes
  <2>2. IsFiniteSet(places)
    <3>1. IsFiniteSet(bags)
      BY <1>1, FS_Subset, DeduperAssumption
    <3> DEFINE f == [b \in bags |-> frame[b]]
    <3>2. f \in Surjection(bags, places)
      BY DEF Surjection
    <3> HIDE DEF bags, f, places
    <3> QED  BY <3>1, <3>2, FS_Surjection
  <2>5. places \subseteq Nat
    BY <1>1
  <2> HIDE DEF places
  <2>3. Min(places) \in places
    BY <2>1, <2>5, HasLeast DEF Min
  <2>4. Max(places) \in places
    BY <2>1, <2>2, <2>5, HasGreatest DEF Max
  <2> DEFINE lo == Min(places)
             hi == Max(places)
  <2>6. lo \in Nat /\ hi \in Nat
    BY <2>3, <2>4, <2>5
  <2>7. ItemBoxes(frame)[i] = <<lo, hi>>
    BY <2>1
  <2> HIDE DEF lo, hi
  <2> QED  BY <2>6, <2>7
<1> QED  BY <1>2, <1>3

ItemState == [box : Nat \X Nat, start : Time, alerted : BOOLEAN]

LEMMA SeenTypes ==
  ASSUME SceneAlertsTypeOK, NEW frame \in Frame, NEW i \in DOMAIN Seen(items, frame)
  PROVE  Seen(items, frame)[i] \in ItemState
<1> DEFINE boxes == ItemBoxes(frame)
<1>1. i \in DOMAIN boxes => boxes[i] \in Nat \X Nat
  BY BoxesAreIntervals
<1> HIDE DEF boxes
<1>2. Seen(items, frame) =
        [j \in DOMAIN items \cup DOMAIN boxes |->
          IF j \notin DOMAIN items THEN [box |-> boxes[j], start |-> 0, alerted |-> FALSE]
          ELSE IF j \in DOMAIN boxes THEN [items[j] EXCEPT !.box = boxes[j]]
          ELSE items[j]]
  BY DEF Seen, boxes
<1>3. \A j \in DOMAIN items : items[j] \in ItemState
  BY DEF SceneAlertsTypeOK, ItemState
<1>4. 0 \in Time
  BY SceneAlertsAssumption DEF Time
<1>5. CASE i \notin DOMAIN items
  BY <1>1, <1>2, <1>4, <1>5 DEF ItemState
<1>6. CASE i \in DOMAIN items /\ i \in DOMAIN boxes
  BY <1>1, <1>2, <1>3, <1>6 DEF ItemState
<1>7. CASE i \in DOMAIN items /\ i \notin DOMAIN boxes
  BY <1>2, <1>3, <1>7
<1> QED  BY <1>5, <1>6, <1>7

LEMMA ExaminedTypes ==
  ASSUME NEW item \in ItemState, NEW attended, NEW now \in Time
  PROVE  Examined(item, attended, now) \in ItemState
<1>1. 0 \in Time /\ Start(item, now) \in Time
  BY SceneAlertsAssumption DEF Time, Start, ItemState
<1>2. (item.alerted \/ IsDue(item, now)) \in BOOLEAN
  BY DEF IsDue
<1> HIDE DEF Time
<1> QED  BY <1>1, <1>2 DEF Examined, ItemState

(* What AlertManager leaves is a table. *)
LEMMA HistoryIsTable ==
  ASSUME NEW raw, NEW now, NEW g \in Processed(history, raw, now)
  PROVE  g = [k \in DOMAIN g |-> g[k]]
<1> DEFINE h == Updated(history, raw, now)
           clock == IF raw = {} THEN 0 ELSE now
<1>1. h = [k \in DOMAIN h |-> h[k]]
  BY DEF Updated
<1>2. g \in CleanedUp(h, clock)
  BY DEF Processed
<1> HIDE DEF h, clock
<1>3. g = h \/ g \in Trimmed(Unexpired(h, clock), DesiredSize(Cardinality(DOMAIN Unexpired(h, clock))))
  BY <1>2 DEF CleanedUp
<1> QED  BY <1>1, <1>3 DEF Trimmed, Keep

LEMMA TableIsHistory ==
  ASSUME NEW g, g = [k \in DOMAIN g |-> g[k]], DOMAIN g \subseteq Key, \A k \in DOMAIN g : g[k] \in Time
  PROVE  g \in History
<1>1. g \in [DOMAIN g -> Time]
  OBVIOUS
<1> QED  BY <1>1 DEF History

(* The tables of the alerts, once their times are known. *)
LEMMA ProcessTypes ==
  ASSUME NEW raw, NEW now, ProcessAlerts(raw, now), Emissions', EmissionTimes'
  PROVE  history' \in History /\ lastEmit' \in History
<1>1. /\ DOMAIN history' \subseteq DOMAIN lastEmit' /\ DOMAIN lastEmit' \subseteq Key
      /\ \A k \in DOMAIN lastEmit' : lastEmit'[k] \in Time
      /\ \A k \in DOMAIN history' : history'[k] \in Time
  BY DEF Emissions, EmissionTimes
<1>2. history' = [k \in DOMAIN history' |-> history'[k]]
  BY HistoryIsTable DEF ProcessAlerts
<1>3. lastEmit' = [k \in DOMAIN lastEmit' |-> lastEmit'[k]]
  BY DEF ProcessAlerts
<1> QED  BY <1>1, <1>2, <1>3, TableIsHistory

LEMMA NoObjectsIsFrame == NoObjects \in Frame
<1> DEFINE none == {f \in [{} -> UNION {Places[t] : t \in {}}] : \A t \in {} : f[t] \in Places[t]}
<1>1. NoObjects \in none
  BY DEF NoObjects
<1>2. none \subseteq Frame
  BY DEF Frame
<1> QED  BY <1>1, <1>2

LEMMA RememberedTypes ==
  ASSUME last \in Frame, NEW frame \in Frame, NEW untracked
  PROVE  Remembered(last, frame, untracked) \in Frame
  BY NoObjectsIsFrame DEF Remembered

LEMMA DiffersTypes ==
  ASSUME NEW frame \in Frame, NEW shown \in Frame
  PROVE  Differs(frame, shown) \subseteq Tracks
  BY FrameOfTracks DEF Differs

LEMMA HandledTypes ==
  ASSUME SceneAlertsTypeOK, AlertInv, AlertInv', HistoryInv', FrameHandled
  PROVE  SceneAlertsTypeOK'
<1>1. PICK frame \in Frame, now \in Time : \E untracked \in Untracked(frame) :
        /\ last' = Remembered(last, frame, untracked)
        /\ view' = frame
        /\ missed' = {}
        /\ overrun' = FALSE
        /\ \E owners \in SUBSET (DOMAIN frame \cap Persons), shared \in SUBSET SharedKeys :
             Handled(frame, now, owners, shared)
  BY DEF FrameHandled, Handled
<1>2. PICK untracked \in Untracked(frame) : last' = Remembered(last, frame, untracked)
  BY <1>1
<1>3. PICK owners \in SUBSET (DOMAIN frame \cap Persons), shared \in SUBSET SharedKeys :
        Handled(frame, now, owners, shared)
  BY <1>1
<1>4. last' \in Frame /\ view' \in Frame /\ missed' \subseteq Tracks /\ overrun' \in BOOLEAN
  BY <1>1, <1>2, RememberedTypes DEF SceneAlertsTypeOK
<1>5. stamp' \in [Sources -> Time] /\ ItemTable'
  BY DEF AlertInv, Times
<1>6. /\ DOMAIN items' = DOMAIN Seen(items, frame)
      /\ \A i \in DOMAIN items' : items'[i] \in ItemState
  <2> DEFINE seen == Seen(items, frame)
  <2>1. items' = [i \in DOMAIN seen |-> Examined(seen[i], i \notin Unattended(items, frame, owners), now)]
    BY <1>3 DEF Handled, Applied
  <2>2. \A i \in DOMAIN seen : seen[i] \in ItemState
    BY SeenTypes
  <2> HIDE DEF seen
  <2>3. \A i \in DOMAIN seen : items'[i] \in ItemState
    BY <2>1, <2>2, ExaminedTypes
  <2> QED  BY <2>1, <2>3 DEF seen
<1>7. \A i \in DOMAIN items' : items'[i].alerted => items'[i].start > 0
  BY <1>5 DEF AlertInv, Reported, ItemTable
<1>8. since' \in [DOMAIN items' -> Time]
  <2>1. since' = [i \in DOMAIN items' |-> since'[i]]
    BY <1>3 DEF Handled
  <2>2. ASSUME NEW i \in DOMAIN items'
        PROVE  since'[i] \in Time
    BY <1>5, <1>6 DEF ItemTable, ItemState
  <2> QED  BY <2>1, <2>2
<1>9. history' \in History /\ lastEmit' \in History /\ DOMAIN history' \subseteq DOMAIN lastEmit'
  <2>1. ProcessAlerts(LeftItems(items, frame, owners, now) \cup shared, now)
    BY <1>3 DEF Handled
  <2>2. Emissions' /\ EmissionTimes' /\ DOMAIN history' \subseteq DOMAIN lastEmit'
    BY DEF HistoryInv, Emissions
  <2> QED  BY <2>1, <2>2, ProcessTypes
<1> QED  BY <1>4, <1>5, <1>6, <1>7, <1>8, <1>9 DEF SceneAlertsTypeOK, ItemTable, ItemState

LEMMA NextTypes ==
  SceneAlertsTypeOK /\ AlertInv /\ HistoryInv /\ [Next]_vars => SceneAlertsTypeOK'
<1> SUFFICES ASSUME SceneAlertsTypeOK, AlertInv, HistoryInv, [Next]_vars
             PROVE  SceneAlertsTypeOK'
  OBVIOUS
<1>1. AlertInv' /\ HistoryInv'
  BY NextAlerts, NextHistory
<1>2. CASE FrameDeduped
  <2>1. PICK frame \in Frame : \E untracked \in Untracked(frame) :
          /\ last' = Remembered(last, frame, untracked)
          /\ missed' = IF DOMAIN frame = {} THEN {} ELSE Differs(frame, view)
          /\ overrun' = (overrun /\ ~ IsEmpty(frame, untracked))
          /\ UNCHANGED <<view, stamp, items, since, alertVars>>
    BY <1>2 DEF FrameDeduped
  <2>2. last' \in Frame /\ missed' \subseteq Tracks /\ overrun' \in BOOLEAN
    BY <2>1, RememberedTypes, DiffersTypes DEF SceneAlertsTypeOK
  <2> QED  BY <2>1, <2>2 DEF SceneAlertsTypeOK, alertVars
<1>3. CASE FrameDropped
  <2>1. PICK frame \in Frame : \E untracked \in Untracked(frame) :
          /\ last' = Remembered(last, frame, untracked)
          /\ missed' = Differs(frame, view)
          /\ overrun' = TRUE
          /\ UNCHANGED <<view, stamp, items, since, alertVars>>
    BY <1>3 DEF FrameDropped
  <2>2. last' \in Frame /\ missed' \subseteq Tracks
    BY <2>1, RememberedTypes, DiffersTypes DEF SceneAlertsTypeOK
  <2> QED  BY <2>1, <2>2 DEF SceneAlertsTypeOK, alertVars
<1>4. CASE FrameHandled
  BY <1>1, <1>4, HandledTypes
<1>5. CASE GateHandled
  <2>1. PICK raw \in SUBSET (GateKeys \cup SharedKeys), now \in Time :
          /\ ProcessAlerts(raw, now)
          /\ UNCHANGED <<camVars, items, since>>
    BY <1>5 DEF GateHandled
  <2>2. history' \in History /\ lastEmit' \in History
    BY <1>1, <2>1, ProcessTypes DEF HistoryInv
  <2>3. stamp' \in [Sources -> Time] /\ DOMAIN history' \subseteq DOMAIN lastEmit'
    BY <1>1 DEF HistoryInv, Emissions, EmissionTimes
  <2> QED  BY <2>1, <2>2, <2>3 DEF SceneAlertsTypeOK, camVars
<1>6. CASE UNCHANGED vars
  BY <1>6 DEF vars, camVars, alertVars, SceneAlertsTypeOK
<1> QED  BY <1>2, <1>3, <1>4, <1>5, <1>6 DEF Next

LEMMA InitTypes == Init => SceneAlertsTypeOK
<1> SUFFICES ASSUME Init
             PROVE  SceneAlertsTypeOK
  OBVIOUS
<1>1. last \in Frame /\ view \in Frame
  BY NoObjectsIsFrame DEF Init
<1>2. /\ DOMAIN items = {} /\ since \in [DOMAIN items -> Time]
      /\ history = [k \in DOMAIN history |-> history[k]] /\ DOMAIN history = {}
      /\ lastEmit = [k \in DOMAIN lastEmit |-> lastEmit[k]] /\ DOMAIN lastEmit = {}
  BY DEF Init, NoItems, NoAlerts
<1>3. history \in History /\ lastEmit \in History
  BY <1>2, TableIsHistory
<1>4. stamp \in [Sources -> Time]
  BY InitHistory DEF HistoryInv, EmissionTimes
<1> QED  BY <1>1, <1>2, <1>3, <1>4 DEF Init, SceneAlertsTypeOK

(* The tables of the deduper, the rule and AlertManager map known tracks,  *)
(* items and keys to places and times, no item is alerted about before its *)
(* timer has been started, and no key is remembered that was not emitted.  *)
THEOREM SceneAlertsTypeCorrect == Spec => []SceneAlertsTypeOK
<1>1. Init => SceneAlertsTypeOK /\ AlertInv /\ HistoryInv
  BY InitTypes, InitAlerts, InitHistory
<1>2. SceneAlertsTypeOK /\ AlertInv /\ HistoryInv /\ [Next]_vars
        => SceneAlertsTypeOK' /\ AlertInv' /\ HistoryInv'
  BY NextTypes, NextAlerts, NextHistory
<1> QED  BY <1>1, <1>2, PTL DEF Spec

=============================================================================
