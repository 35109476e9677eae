\* relay_mode off while the consumer reads only its relay socket: the task
\* packets fill the producer's socket and its channels block in send().
SPECIFICATION FairSpec
CONSTANTS
  Channels = {c1}
  NumSlots = 3
  RelayMode = FALSE
  SocketCap = 2
  MaxSizeBuffers = 1
  Faults = {}
PROPERTIES
  SendsComplete
CHECK_DEADLOCK FALSE
