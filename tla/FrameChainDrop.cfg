CONSTANTS
  Frames = {f1, f2, f3, f4}
  NoFrame = nil
SPECIFICATION SpecAnyDrop
INVARIANTS
  UsedIsReachable
