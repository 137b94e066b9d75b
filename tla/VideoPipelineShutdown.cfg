CONSTANTS
  RingSize = 2
  Importer = imp
  Exporter = exp
  EventThread = evt
  Workers = {w1}
  MaxId = 1
  MaxWait = 2
  NoFrame = nil
SPECIFICATION PipelineSpec
PROPERTIES
  ShutdownEnds
CHECK_DEADLOCK FALSE
