\* The application seeks back to the start after end of stream.
SPECIFICATION FairSpec
CONSTANTS
  Pads = {p1, p2}
  MaxFrames = 1
  MaxRuns = 1
  MaxLoops = 1
PROPERTIES
  DataIsPushed
CHECK_DEADLOCK FALSE
