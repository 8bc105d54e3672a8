CONSTANTS
  Peers = {1}
  MaxHeight = 3
  MaxPendingRequests = 2
  ValSetAt <- MCValSetAt
  MaxUpsets = 1
  MaxPeerHeight = 2
  MaxPeerRound = 1
  Steps = {}
  MaxValSet = 2
  VoteKinds <- MCVoteKinds
  Data = {p, q}
  MaxParts = 5
SPECIFICATION MCSpec
INVARIANTS TypeOK SyncedIsStored StateMatchesHeights OffersAreRight ViewIsBehind PartsAreRight
PROPERTIES NotifiedOnce CatchesUp StopEnds
CHECK_DEADLOCK FALSE
