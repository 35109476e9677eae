---------------------------- MODULE LeftItemRule ----------------------------
(***************************************************************************)
(* The left-item rule of one source.  It remembers every item it has seen  *)
(* with the box it saw last, looks at all of them in each frame, and       *)
(* raises an alert for an item without an owner for the grace period.      *)
(* removed_track_ids, which would make it forget an item, is always empty  *)
(* in the messages of the capture process.                                 *)
(***************************************************************************)
EXTENDS Integers, FiniteSetsExt

CONSTANTS Persons, Bags,
          MergeBags,      \* handbags and backpacks are one item
          Grace,          \* grace_period_us_
          OwnerReach      \* an owner's zone and the item's box overlap enough

ASSUME LeftItemAssumption == Grace \in Nat \ {0} /\ OwnerReach \in Nat

MergedBag == "merged_bag"

Item == IF MergeBags THEN {MergedBag} ELSE Bags

NoItems == [i \in {} |-> 0]

(* The boxes of the items a frame shows: the merged bag's box is the hull  *)
(* of all bags.                                                            *)
ItemBoxes(frame) ==
  LET places == {frame[b] : b \in DOMAIN frame \cap Bags} IN
  IF ~ MergeBags THEN [b \in DOMAIN frame \cap Bags |-> <<frame[b], frame[b]>>]
  ELSE [i \in IF places = {} THEN {} ELSE {MergedBag} |-> <<Min(places), Max(places)>>]

(* A person's zone is wide around it; the overlap counts relative to both  *)
(* boxes, so that a hull wider than the zone finds no owner.               *)
Owns(place, box) ==
  /\ box[1] - OwnerReach <= place
  /\ place <= box[2] + OwnerReach
  /\ box[2] - box[1] <= 2 * OwnerReach

(* The items as a frame leaves them before they are examined. *)
Seen(items, frame) ==
  LET boxes == ItemBoxes(frame) IN
  [i \in DOMAIN items \cup DOMAIN boxes |->
    IF i \notin DOMAIN items THEN [box |-> boxes[i], start |-> 0, alerted |-> FALSE]
    ELSE IF i \in DOMAIN boxes THEN [items[i] EXCEPT !.box = boxes[i]]
    ELSE items[i]]

(* owners are the persons of the frame seen clearly enough and not taken   *)
(* for furniture.                                                          *)
HasOwner(item, frame, owners) == \E p \in owners : Owns(frame[p], item.box)

Start(item, now) == IF item.start = 0 THEN now ELSE item.start

IsDue(item, now) == ~ item.alerted /\ now - Start(item, now) >= Grace

(* Mutant: an owner who comes back clears the timer only. *)
ExaminedKeepsAlerted(item, attended, now) ==
  IF attended THEN [item EXCEPT !.start = 0]
  ELSE [item EXCEPT !.start = Start(item, now),
                    !.alerted = item.alerted \/ IsDue(item, now)]

(* Mutant: an owner who comes back does not clear the timer. *)
ExaminedKeepsStart(item, attended, now) ==
  IF attended THEN [item EXCEPT !.alerted = FALSE]
  ELSE [item EXCEPT !.start = Start(item, now),
                    !.alerted = item.alerted \/ IsDue(item, now)]

Examined(item, attended, now) ==
  IF attended THEN [item EXCEPT !.start = 0, !.alerted = FALSE]
  ELSE [item EXCEPT !.start = Start(item, now),
                    !.alerted = item.alerted \/ IsDue(item, now)]

Unattended(items, frame, owners) ==
  {i \in DOMAIN Seen(items, frame) : ~ HasOwner(Seen(items, frame)[i], frame, owners)}

(* The items apply() raises an alert for, and the table it leaves. *)
LeftItems(items, frame, owners, now) ==
  {i \in Unattended(items, frame, owners) : IsDue(Seen(items, frame)[i], now)}

Applied(items, frame, owners, now) ==
  [i \in DOMAIN Seen(items, frame) |->
    Examined(Seen(items, frame)[i], i \notin Unattended(items, frame, owners), now)]

=============================================================================
