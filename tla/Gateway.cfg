CONSTANTS
  Users = {u1, u2}
  Nobody = nobody
  Asked <- AnyAndRead
  Requests = {"any", "read"}
  TTL = 1
  MaxTime = 2
SPECIFICATION Spec
SYMMETRY Symmetry
INVARIANTS TypeOK MissesOnlyRecentChanges OnlyDeletionIsMisread
PROPERTY KeepsPromise
CHECK_DEADLOCK FALSE
