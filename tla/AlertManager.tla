---------------------------- MODULE AlertManager ----------------------------
(***************************************************************************)
(* The alert history of rule_process: per dedup key the timestamp of its   *)
(* last emission.  It suppresses alerts in their cooldown and is trimmed,  *)
(* by age and then by size, when it has grown past its limits.             *)
(***************************************************************************)
EXTENDS Integers, FiniteSets

CONSTANTS Keys,
          Cooldown,          \* cooldown_us_
          Wrap,              \* timestamps and differences are taken modulo Wrap
          CleanupThreshold,  \* 0: no soft limit
          MaxHistorySize,    \* 0: no hard limit
          CleanupPercent     \* cleanup_ratio_

(* A key is put together from a source, the name of a rule and track ids.  *)
ASSUME AlertManagerAssumption ==
  /\ IsFiniteSet(Keys)
  /\ {Cooldown, CleanupThreshold, MaxHistorySize, CleanupPercent} \subseteq Nat
  /\ Wrap \in Nat \ {0}
  /\ Cooldown < Wrap

NoAlerts == [k \in {} |-> 0]

(* Mutant: the cooldown is over one unit early. *)
InCooldownShort(history, key, now) ==
  key \in DOMAIN history /\ ((now - history[key]) % Wrap) + 1 < Cooldown

(* Unsigned subtraction: a timestamp older than the remembered one counts  *)
(* as out of the cooldown.                                                 *)
InCooldown(history, key, now) ==
  key \in DOMAIN history /\ (now - history[key]) % Wrap < Cooldown

(* The keys of what processAlerts returns for the alerts of one event,     *)
(* which all carry its timestamp; a second alert of a key is in the        *)
(* cooldown of the first, or repeats it when there is no cooldown.         *)
Emitted(history, raw, now) == {k \in raw : ~ InCooldown(history, k, now)}

Updated(history, raw, now) ==
  [k \in DOMAIN history \cup raw |->
    IF k \in Emitted(history, raw, now) THEN now ELSE history[k]]

OverSoftLimit(n) == CleanupThreshold > 0 /\ n > CleanupThreshold

OverHardLimit(n) == MaxHistorySize > 0 /\ n > MaxHistorySize

Keep(history, keys) == [k \in keys |-> history[k]]

(* Entries whose timestamp is later than now are kept whatever their age. *)
Unexpired(history, now) ==
  IF now = 0 \/ Cooldown = 0 THEN history
  ELSE Keep(history, {k \in DOMAIN history :
                        history[k] > now \/ now - history[k] < Cooldown})

AtMost(a, b) == IF a < b THEN a ELSE b

DesiredSize(n) ==
  LET capped == IF OverHardLimit(n) THEN MaxHistorySize ELSE n IN
  CASE ~ OverSoftLimit(n) \/ CleanupPercent = 0 -> capped
    [] OverSoftLimit(n) /\ CleanupPercent \in 1 .. 99 ->
         AtMost(capped, (n * (100 - CleanupPercent)) \div 100)
    [] OTHER -> 0

(* The histories with the oldest entries evicted down to n entries; which  *)
(* of several equally old ones go is the sort's choice.                    *)
Trimmed(history, n) ==
  {Keep(history, keys) : keys \in
    {S \in SUBSET DOMAIN history :
       /\ Cardinality(S) = AtMost(n, Cardinality(DOMAIN history))
       /\ \A k \in S, j \in DOMAIN history \ S : history[j] <= history[k]}}

CleanedUp(history, now) ==
  LET n == Cardinality(DOMAIN history)
      young == Unexpired(history, now)
  IN
  IF OverSoftLimit(n) \/ OverHardLimit(n)
  THEN Trimmed(young, DesiredSize(Cardinality(DOMAIN young)))
  ELSE {history}

(* processAlerts: the histories it may leave.  Without an alert it knows   *)
(* no current time.                                                        *)
Processed(history, raw, now) ==
  CleanedUp(Updated(history, raw, now), IF raw = {} THEN 0 ELSE now)

=============================================================================
