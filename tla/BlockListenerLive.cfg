CONSTANTS
  a = a
  b = b
  tk = tk
  h1 = h1
  h2 = h2
  Addresses = {a, b}
  Newcomers = {}
  Plain = {b}
  Tokens = {}
  Native = Native
  Transfers <- MCQueue
  Reverted = {h2}
  Confirmations = 2
  MaxHeight = 3
  MaxReorgs = 1
SPECIFICATION FairSpec
CHECK_DEADLOCK FALSE
PROPERTIES PendingEnds IncomingIsRecorded
