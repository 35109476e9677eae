\* Two channels: a release packet read between another channel's send and
\* its SubmitSlot is thrown away.
SPECIFICATION Spec
CONSTANTS
  Channels = {c1, c2}
  NumSlots = 2
  RelayMode = FALSE
  SocketCap = 2
INVARIANTS
  NoSlotLeaked
