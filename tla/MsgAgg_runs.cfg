\* Two pads, two runs of the element, one seek.
SPECIFICATION FairSpec
CONSTANTS
  Pads = {p1, p2}
  MaxFrames = 2
  MaxRuns = 2
  MaxLoops = 1
INVARIANTS
  MsgAggTypeOK
  StreamsIntact
  EosComesLast
PROPERTIES
  FirstPassIsPushed
  EosArrives
  StopCompletes
CHECK_DEADLOCK FALSE
