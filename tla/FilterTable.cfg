CONSTANTS
  MaxFilters = 3
  Names = {a, b}
  Callers = {t1}
  NoName = none
SPECIFICATION Spec
INVARIANTS
  TableIsPrefix FindsLoaded FramesAfterInit FrameMeetsFilters
CHECK_DEADLOCK FALSE
