\* Three connections, one stream: locking, the player maps and the directory.
SPECIFICATION Spec
CONSTANTS
  s1 = s1
  s2 = s2
  s3 = s3
  Session = {s1, s2, s3}
  Name = {"live"}
  None = None
  Kind = {"media"}
  MaxPackets = 2
SYMMETRY Symmetry
\* Every peer may leave, so the system may stop.
CHECK_DEADLOCK FALSE
INVARIANTS
  TypeOK
  LockDiscipline
  RegisteredIsAlive
  RelayInvariant
PROPERTY MapStableInRange
