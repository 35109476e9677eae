\* One person and one bag in the yard, one key at the gate and one without a
\* source; the history holds one entry before it is trimmed.
SPECIFICATION Spec
CONSTANTS
  Persons = {p}
  Bags = {b}
  Places <- MCPlaces
  MinMove = 2
  Tracks <- MCTracks
  MergeBags = TRUE
  Grace = 2
  OwnerReach = 0
  Keys <- MCKeys
  GateKeys = {}
  SharedKeys = {x}
  Cooldown = 2
  Wrap = 64
  CleanupThreshold = 1
  MaxHistorySize = 2
  CleanupPercent = 50
  MaxTime = 5
  MaxSkew = 1
INVARIANTS
  SceneAlertsTypeOK
  ViewIsCurrent
  CooldownKept
  LeftItemReported
PROPERTIES
  AlarmsAreDue
CHECK_DEADLOCK FALSE
