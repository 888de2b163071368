\* Two updates at a time, /tmp elsewhere, releases that appear at once, one
\* after the other.
CONSTANTS
  t1 = t1
  t2 = t2
  Task = {t1, t2}
  Inode = {1, 2, 3, 4, 5}
  Version = {1, 2, 3}
  Batches <- Together
  Damages = {}
  Rollbacks = FALSE
  SameFs = FALSE
  Sudo = TRUE
  MaxCrashes = 0
  NoInode = NoInode
  NoTask = NoTask
  NoVersion = NoVersion
  Damaged = Damaged
  Down = Down
SPECIFICATION FairSpec
PROPERTIES InstallsOnlyNewer EveryUpdateEnds
\* A binary installed without verification may not start: the service stops.
CHECK_DEADLOCK FALSE
