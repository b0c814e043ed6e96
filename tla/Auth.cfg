CONSTANTS
  Users = {u1, u2}
  Tasks = {t1, t2}
  Second = 2
  Expiration = 1
  MaxSessions = 2
  MaxTime = 2
SPECIFICATION FairSpec
INVARIANTS TypeOK AcceptedAsWhoLoggedIn DeletedIsRefused AcceptedInTime JWTCoversTheSession
PROPERTY HandlersEnd
