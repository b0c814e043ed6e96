CONSTANTS
  Emails = {e1, e2}
  Passwords = {p1, p2}
  Codes = {k1, k2}
  Tasks = {t1, t2, t3}
  MaxUsers = 2
SPECIFICATION Spec
SYMMETRY Symmetry
INVARIANTS TypeOK
PROPERTIES StaysVerified VerifiedByIssuedCode OnlyStaleHandlersHarm
