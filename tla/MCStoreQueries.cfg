\* One query at a time against saves, rotations.
CONSTANTS
  MaxTime = 3
  RetentionDays = 1
  Day = 1
  Hour = 1
  Word = 16
  Reader = {"r1"}
  Ranges <- MCRanges
  Hours <- MCHours
  Limits <- MCLimits
  IoErrors = FALSE
  MaxCrashes = 0
  NoTime = NoTime
  NoLimit = NoLimit
SPECIFICATION Spec
INVARIANTS TypeOK RangeComplete LatestNotStale BoundsCover
