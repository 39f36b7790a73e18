CONSTANTS
  MaxBuf = 5
  MaxSize = 3
  MaxReceived = 5
  MaxBytes = 3
SPECIFICATION Spec
INVARIANTS ClosedForm NothingLost OneByOneIsOneValue BytesMatchTokens HeapMattersToPartsOnly
CHECK_DEADLOCK FALSE
