\* Three sessions compete for one code, one of them views it first: the directory and panics.
SPECIFICATION Spec
CONSTANTS
  s1 = s1
  s2 = s2
  s3 = s3
  Session = {s1, s2, s3}
  Channel = {"cam"}
  None = None
  Publisher = {s1, s2, s3}
  Viewer = {s2}
  Recorder = {}
  Sender = {}
  QueueLime = 1
  MaxFrames = 0
SYMMETRY Symmetry
\* Every client may leave, so the system may stop.
CHECK_DEADLOCK FALSE
PROPERTIES
  CrashIsDoubleStop
  DirectoryImplemented
