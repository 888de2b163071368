\* Traffic that has been there all the time.
CONSTANTS
  Window = 16
  ConfirmProbes = 2
  Jump <- MCJump
  Least <- MCLeast
  Hosts <- SteadyHosts
  SinceBoot = 50
  NoReading = NoReading
  NoAverage = NoAverage
SPECIFICATION Spec
INVARIANT SteadyLevelIsNoEvent
