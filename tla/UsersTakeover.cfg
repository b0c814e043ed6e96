CONSTANTS
  Emails = {e1}
  Passwords = {p1, p2}
  Codes = {k1, k2}
  Tasks = {t1, t2}
  MaxUsers = 1
SPECIFICATION Spec
SYMMETRY Symmetry
PROPERTY VerifiedIsLeftAlone
