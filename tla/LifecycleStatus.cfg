SPECIFICATION LifecycleSpec
CONSTANTS
  Run = {r1, r2}
  NoRun = NoRun
INVARIANTS
  VoiceStatusIsTrue
CHECK_DEADLOCK FALSE
