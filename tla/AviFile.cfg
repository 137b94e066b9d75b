SPECIFICATION Spec
CONSTANTS
  HeaderBytes = 20
  RiffThres = 190
  Tracks <- MCTracks
  Lengths = {0, 33}
  Wants = {2, 40}
  MaxChunks = 5
  MaxReads = 2
INVARIANTS
  RoundTrip
  RiffsTile
  AudioInOrder
