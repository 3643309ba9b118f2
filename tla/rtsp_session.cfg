\* One session that may publish or play, and the publisher it may play from.
SPECIFICATION Spec
CONSTANTS
  Pairs <- TwoPairs
  Descriptions <- Varied
  MaxQueue = 1
  None = None
\* A client may stop sending.
CHECK_DEADLOCK FALSE
INVARIANTS
  TypeOK
  
  FramesKeepTrack
  SameChannelsSameFrames
  WireUnmixed
  SessionInvariant
PROPERTY RefusedStops
