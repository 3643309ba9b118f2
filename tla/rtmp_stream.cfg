\* Messages of a publisher, interleaved on four chunk streams.
SPECIFICATION Spec
CONSTANTS
  Payloads <- All
  Steps <- LongSteps
  MaxField = 16777214
  RepeatSteps = {0}
  MaxMessages = 3
  MaxPending = 2
  MaxWire = 8
  ClientChunk = 4
  ServerChunk = 3
\* A client may stop sending.
CHECK_DEADLOCK FALSE
INVARIANTS
  TypeOK
  ReceivedAsSent
  ViewerSeesStream
  RecordingPlays
  EndsForAReason
  NothingHeldBack
  ServerLagsClient
