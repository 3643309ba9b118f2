\* A publisher and a session that views and publishes, both of which send a frame, so that
\* the viewer may fill its own channel: what a stop achieves.
SPECIFICATION FairSpec
CONSTANTS
  s1 = s1
  s2 = s2
  s3 = s3
  Session = {s1, s2}
  Channel = {"cam"}
  None = None
  Publisher = {s1, s2}
  Viewer = {s2}
  Recorder = {s1}
  Sender = {s1, s2}
  QueueLime = 1
  MaxFrames = 1
\* Every client may leave, so the system may stop.
CHECK_DEADLOCK FALSE
PROPERTIES
  CodeReleased
  StopCloses
