\* Two channels sharing the producer: safety in every interleaving.
SPECIFICATION Spec
CONSTANTS
  Channels = {c1, c2}
  NumSlots = 3
  RelayMode = FALSE
  SocketCap = 2
SYMMETRY ChannelSymmetry
INVARIANTS
  DirectTypeOK
  SlotExclusive
  PoolAgrees
