CONSTANTS
  Users = {u1}
  Nobody = nobody
  Requests = {"any"}
  Asked <- AnyAndRead
  TTL = 2
  MaxTime = 1
SPECIFICATION Spec
INVARIANT DeletionSucceeds
CHECK_DEADLOCK FALSE
