\* Two updates at a time share the temporary file.
CONSTANTS
  t1 = t1
  t2 = t2
  Task = {t1, t2}
  Inode = {1, 2, 3, 4, 5}
  Version = {1, 2, 3}
  Batches <- Together
  Damages = {Damaged}
  Rollbacks = TRUE
  SameFs = TRUE
  Sudo = TRUE
  MaxCrashes = 0
  NoInode = NoInode
  NoTask = NoTask
  NoVersion = NoVersion
  Damaged = Damaged
  Down = Down
SYMMETRY Symmetry
SPECIFICATION Spec
INVARIANT VerifiedBinary
\* A binary installed without verification may not start: the service stops.
CHECK_DEADLOCK FALSE
