CONSTANT
  MaxTime = 3
SPECIFICATION Spec
INVARIANTS
  RecorderHasCamera CameraOrPlayer ButtonHasCamera
PROPERTIES
  RecordingEnds
CHECK_DEADLOCK FALSE
