\* Averages over 16 ticks; five kinds of host.
CONSTANTS
  Window = 16
  ConfirmProbes = 2
  Jump <- MCJump
  Least <- MCLeast
  Hosts <- MCHosts
  SinceBoot = 50
  NoReading = NoReading
  NoAverage = NoAverage
SPECIFICATION FairSpec
INVARIANTS TypeOK AttackStaysReported
PROPERTIES JumpIsReported GlitchStartsNothing SpikeEnds CalmEndsEvents
