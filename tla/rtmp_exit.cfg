\* A publisher and its player: does the stop of one reach the other?
SPECIFICATION FairSpec
CONSTANTS
  s1 = s1
  s2 = s2
  s3 = s3
  Session = {s1, s2}
  Name = {"live"}
  None = None
  Kind = {"media"}
  MaxPackets = 2
\* Every peer may leave, so the system may stop.
CHECK_DEADLOCK FALSE
PROPERTIES
  PlayersExitWithPusher
