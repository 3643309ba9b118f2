\* One client's session; sizes are scaled, 128 to 6 and 1024 to 10.
SPECIFICATION Spec
CONSTANTS
  DefaultChunk = 6
  ServerChunk = 10
  FirstWindow = 6
  Windows = {0, 3, 9}
  Lengths = {2, 4}
  MediaLengths = {0, 12}
  AnswerLength = 8
  Wrap = 16
  MaxRead = 4
  MaxMedia = 1
\* A client may stop sending.
CHECK_DEADLOCK FALSE
INVARIANTS
  TypeOK
  WireReadable
  MediaAfterStart
  AcksKeepUp
  SessionInvariant
PROPERTY WritesEnd
