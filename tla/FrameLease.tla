----------------------------- MODULE FrameLease -----------------------------
(***************************************************************************)
(* What the frame cache promises about the memory of one slot, whoever     *)
(* takes part: it is free, or filled by one capture thread, or lent to the *)
(* processes downstream, and what is lent comes back.                      *)
(***************************************************************************)
CONSTANT Slot

VARIABLE lease          \* lease[i] is what slot i is used for

Phase == {"free", "filling", "lent"}

Init == lease = [i \in Slot |-> "free"]

Move(i, from, to) ==
  /\ lease[i] = from
  /\ lease' = [lease EXCEPT ![i] = to]

Fill(i) == Move(i, "free", "filling")

Abandon(i) == Move(i, "filling", "free")

Lend(i) == Move(i, "filling", "lent")

Return(i) == Move(i, "lent", "free")

Next == \E i \in Slot : Fill(i) \/ Abandon(i) \/ Lend(i) \/ Return(i)

Spec == Init /\ [][Next]_lease

ComesBack(i) == WF_lease(Return(i))

FairSpec == Spec /\ \A i \in Slot : ComesBack(i)

=============================================================================
