\* Two connections, a header and media, under fairness: what a player gets, and what a
\* stop achieves.
SPECIFICATION FairSpec
CONSTANTS
  s1 = s1
  s2 = s2
  s3 = s3
  Session = {s1, s2}
  Name = {"live"}
  None = None
  Kind = {"meta", "media"}
  MaxPackets = 3
\* Every peer may leave, so the system may stop.
CHECK_DEADLOCK FALSE
INVARIANTS DeliveredInOrder DeliveryInvariant
PROPERTIES
  StopCloses
