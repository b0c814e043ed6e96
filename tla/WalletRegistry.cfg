CONSTANTS
  Users = {u1, u2}
  Requests = {r1, r2}
  PartitionSize = 2
  MaxWallets = 3
SPECIFICATION FairSpec
INVARIANTS TypeOK RowsAreWatched SkippedAtMostVanished KeysHaveRows
PROPERTIES OnlyTheOwnerRemoves IsAWatchList EventsReachTheMap StartEnds
