\* One channel, no fault: more slots than its queue_agg holds buffers.
SPECIFICATION Spec
CONSTANTS
  Channels = {c1}
  NumSlots = 2
  RelayMode = TRUE
  SocketCap = 1
  MaxSizeBuffers = 1
  Faults = {}
INVARIANTS
  EveryFlightIsNamed
