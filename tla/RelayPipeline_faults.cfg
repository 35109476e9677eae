\* Two channels; the consumer and the MQTT connections may go away, publishing
\* may fail, the videos may end and the pipeline may be stopped by an error.
SPECIFICATION FairSpec
CONSTANTS
  Channels = {c1, c2}
  NumSlots = 2
  RelayMode = TRUE
  SocketCap = 1
  MaxSizeBuffers = 1
  Faults = {"consumer_exit", "publish_fails", "pipeline_error", "scene_update", "frame_done"}
INVARIANTS
  RelayTypeOK
  OneReferenceUnlessLost
  WritersAlone
  ReleasesAreDue
PROPERTIES
  LeaseSafe
  LeaseFair
