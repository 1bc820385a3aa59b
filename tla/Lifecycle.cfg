SPECIFICATION LifecycleFairSpec
CONSTANTS
  Run = {r1, r2}
  NoRun = NoRun
INVARIANTS
  LifecycleTypeOK
  ControlStatusIsTrue
PROPERTIES
  StopEnds
  VoiceLoopEnds
CHECK_DEADLOCK FALSE
