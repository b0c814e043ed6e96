CONSTANTS
  a = a
  b = b
  tk = tk
  h1 = h1
  h2 = h2
  Addresses = {a, b}
  Newcomers = {b}
  Plain = {b}
  Tokens = {tk}
  Native = Native
  Transfers <- MCTransfers
  Reverted = {h2}
  Confirmations = 3
  MaxHeight = 3
  MaxReorgs = 1
SPECIFICATION Spec
INVARIANTS TypeOK SuccessIsConfirmed FailureHasACause RowsOfAHashAgree SuccessRefreshes
CHECK_DEADLOCK FALSE
