------------------------------ MODULE Deduper ------------------------------
(***************************************************************************)
(* The deduper of a channel: a frame goes downstream when its whitelisted  *)
(* objects differ from those of the last frame that did.  A frame maps the *)
(* tracks it shows to places; two boxes whose IoU is below the threshold   *)
(* are places at least MinMove apart.                                      *)
(***************************************************************************)
EXTENDS Integers, FiniteSets

CONSTANTS Tracks,
          Places,       \* per track, where it may be seen
          MinMove

(* A track is a label of the detector and a 32-bit tracking-id.            *)
ASSUME DeduperAssumption ==
  /\ IsFiniteSet(Tracks)
  /\ Places \in [Tracks -> SUBSET Nat]
  /\ MinMove \in Nat \ {0}

Frame ==
  UNION {{f \in [S -> UNION {Places[t] : t \in S}] : \A t \in S : f[t] \in Places[t]}
         : S \in SUBSET Tracks}

NoObjects == [t \in {} |-> 0]

Moved(p, q) == p - q >= MinMove \/ q - p >= MinMove

(* A new track, a significant move, or a track that is gone. *)
IsInteresting(last, frame) ==
  \/ DOMAIN frame # DOMAIN last
  \/ \E t \in DOMAIN frame \cap DOMAIN last : Moved(frame[t], last[t])

(* Objects without a tracking-id (untracked) keep a frame from being empty *)
(* but are not compared.  An empty frame never passes.                     *)
IsEmpty(frame, untracked) == DOMAIN frame = {} /\ ~ untracked

Passes(last, frame, untracked) ==
  ~ IsEmpty(frame, untracked) /\ IsInteresting(last, frame)

(* Mutant: the state follows every frame, also those that do not pass. *)
RememberedAlways(last, frame, untracked) == frame

(* The state after a frame: an empty one resets it, one that does not pass *)
(* leaves it.                                                              *)
Remembered(last, frame, untracked) ==
  IF IsEmpty(frame, untracked) THEN NoObjects
  ELSE IF IsInteresting(last, frame) THEN frame
  ELSE last

=============================================================================
