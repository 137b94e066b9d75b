CONSTANTS
  RingSize = 3
  Importer = imp
  Exporter = exp
  Workers = {w1, w2}
  MaxId = 1
  MaxWait = 2
  NoFrame = nil
SPECIFICATION Spec
SYMMETRY WorkerSymmetry
INVARIANTS
  TypeOK ChainIsFramesInUse HeadLinkedRight StageCountersExact ReserveFindsFrame ClaimsExclusive ClaimsMatchStatus ChainSorted ImporterNotStranded
