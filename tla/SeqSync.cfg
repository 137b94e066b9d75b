SPECIFICATION Spec
CONSTANTS
  FpsNum = 4
  FpsDen = 15015
  Rounding = {0, 1}
  Inputs <- MCInputs
  MaxSequences = 4
INVARIANTS
  TotalsMatchOutput
  CorrectionIsSpread
  LagBounded
