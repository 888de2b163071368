\* Saves, rotations, directory errors and crashes, no queries.
CONSTANTS
  MaxTime = 4
  RetentionDays = 1
  Day = 1
  Hour = 1
  Word = 16
  Reader = {}
  Ranges <- MCRanges
  Hours <- MCHours
  Limits <- MCLimits
  IoErrors = TRUE
  MaxCrashes = 1
  NoTime = NoTime
  NoLimit = NoLimit
SPECIFICATION FairSpec
PROPERTIES ImplementsLog ExpiredArePruned
