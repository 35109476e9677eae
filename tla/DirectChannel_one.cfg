\* One channel, with the liveness of slot reclamation.
SPECIFICATION FairSpec
CONSTANTS
  Channels = {c1}
  NumSlots = 3
  RelayMode = FALSE
  SocketCap = 2
INVARIANTS
  NoSlotLeaked
PROPERTIES
  SlotsReclaimed
