CONSTANTS
  Users = {u1, u2}
  Nobody = nobody
  Requests = {"read", "again"}
  Asked <- AnyAndRead
  TTL = 2
  MaxTime = 1
SPECIFICATION Spec
INVARIANT GetsOwnData
CHECK_DEADLOCK FALSE
