SPECIFICATION Spec
CONSTANTS
  MaxFill = 1
  PipeMax = 1
  FifoMax = 1
  Sources <- MCSources
  Copies = {0, 2}
  MaxSessions = 2
INVARIANTS
  OutputFollowsLog
  PacketSlotFree
  RecordBehindCounter
  OnlyLastSequenceMissing
PROPERTY SessionEnds
