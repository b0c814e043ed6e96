CONSTANTS
  Accounts = {a1, a2}
  Requests = {r1, r2, r3}
SPECIFICATION FairSpec
INVARIANTS TypeOK SentIsKept
PROPERTY SentIsMined
CHECK_DEADLOCK FALSE
