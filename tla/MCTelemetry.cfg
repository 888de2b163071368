\* Windows of one to four seconds, a restart.
CONSTANTS
  Configs <- MCConfigs
  DefaultInterval = 4
  DefaultSample = 1
  SlowProbe = 2
  MaxBusy = 2
  MaxRestarts = 1
  Never = Never
SPECIFICATION FairSpec
INVARIANTS TypeOK WindowEndsInTime NoSnapshotOverwritten EventsWithReadings
PROPERTIES ReadingsAreSaved GpuComesBack
