\* A client whose timestamps no longer fit the 24-bit field.
SPECIFICATION Spec
CONSTANTS
  Payloads <- OneAudio
  Steps <- LaterStep
  MaxField = 16777216
  RepeatSteps = {0}
  MaxMessages = 2
  MaxPending = 1
  MaxWire = 100
  ClientChunk = 4
  ServerChunk = 3
CHECK_DEADLOCK FALSE
INVARIANT ReceivedAsSent
