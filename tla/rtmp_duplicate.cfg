\* Two connections publish the same stream.
SPECIFICATION Spec
CONSTANTS
  s1 = s1
  s2 = s2
  s3 = s3
  Session = {s1, s2}
  Name = {"live"}
  None = None
  Kind = {"media"}
  MaxPackets = 1
\* Every peer may leave, so the system may stop.
CHECK_DEADLOCK FALSE
INVARIANT OnePublisherPerName
