CONSTANTS
  RingSize = 2
  Importer = imp
  Exporter = exp
  EventThread = evt
  Workers = {w1, w2}
  MaxId = 2
  MaxWait = 2
  NoFrame = nil
SPECIFICATION PipelineSpec
INVARIANTS
  PoolStopsLast NothingBehindEos
PROPERTIES
  FifoImplemented
  StreamEnds
  ImporterJoined
CHECK_DEADLOCK FALSE
