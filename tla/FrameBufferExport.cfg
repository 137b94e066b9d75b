CONSTANTS
  RingSize = 2
  Importer = imp
  Exporter = exp
  Workers = {w1, w2}
  MaxId = 1
  MaxWait = 2
  NoFrame = nil
SPECIFICATION Spec
SYMMETRY WorkerSymmetry
INVARIANTS
  ExporterNotStranded
