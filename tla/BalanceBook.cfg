CONSTANTS
  Wallets = {w1}
  Currencies = {c1, c2}
  Symbols = {s1, s2}
  Tasks = {t1, t2}
  MaxAmount = 2
SPECIFICATION Spec
SYMMETRY Symmetry
INVARIANTS TypeOK RowsAreFew
PROPERTIES BackOnlyByOverlap SuccessIsFresh
