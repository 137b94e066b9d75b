CONSTANTS
  RingSize = 2
  Jobs <- MCJobs
  Repeats = 1
SPECIFICATION Spec
INVARIANTS
  InStep EncodedOnce RangeExact
PROPERTIES
  ShortAudioEnds
  ImportersJoined
CHECK_DEADLOCK FALSE
