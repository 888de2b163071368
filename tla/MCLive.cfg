\* Two subscribers and a buffer that one of them can be lapped by.
CONSTANTS
  c1 = c1
  c2 = c2
  Client = {c1, c2}
  Buffer = 2
  MaxProbes = 3
  MaxChanges = 1
  NoDetails = NoDetails
SPECIFICATION FairSpec
INVARIANTS TypeOK NothingSkippedUnlapped LagKeepsTheBuffer DetailsOnlyOnChange
PROPERTY DetailsArrive
\* The bounds on ticks and changes end the behaviour.
CHECK_DEADLOCK FALSE
