\* Two publishers of one channel and viewers, who may change roles: safety.
SPECIFICATION Spec
CONSTANTS
  s1 = s1
  s2 = s2
  s3 = s3
  Session = {s1, s2}
  Channel = {"cam"}
  None = None
  Publisher = {s1, s2}
  Viewer = {s1, s2}
  Recorder = {s1, s2}
  Sender = {s1}
  QueueLime = 1
  MaxFrames = 2
\* Every client may leave, so the system may stop.
CHECK_DEADLOCK FALSE
INVARIANTS
  TypeOK
  RelayInvariant
  FramesInOrder
  DeliveryInvariant
  NeverTakesFromEmpty
  LockLeaksOnlyInStop
