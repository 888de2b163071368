\* One update at a time, files published one by one, crashes.
CONSTANTS
  t1 = t1
  t2 = t2
  Task = {t1}
  Inode = {1, 2, 3}
  Version = {1, 2, 3}
  Batches <- OneByOne
  Damages = {Damaged}
  Rollbacks = TRUE
  SameFs = TRUE
  Sudo = TRUE
  MaxCrashes = 2
  NoInode = NoInode
  NoTask = NoTask
  NoVersion = NoVersion
  Damaged = Damaged
  Down = Down
SPECIFICATION FairSpec
INVARIANTS TypeOK VerifiedBinary
PROPERTY UpdateTakesEffect
\* A binary installed without verification may not start: the service stops.
CHECK_DEADLOCK FALSE
