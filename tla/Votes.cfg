CONSTANTS
  MaxTotalVotingPower = 8
  BlockHashes = {a}
  NilHash = NilHash
  EmptyHash = EmptyHash
  None = None
  NoKey = 0
  MaxSeenVotes = 2
  PruneBatch = 1
  VoteProtectionWindow = 0
  MaxPendingEvidence = 1
  MaxAge = 2
  MaxAgeBlocks = 1
  ValSets <- MCValSets
  PubKeys <- MCPubKeys
  Self = 1
  SelfKey = 1
  VoteTypes = {"precommit"}
  Rounds = {0}
  MaxVoteHeight = 2
  MaxCommits = 1
  MaxSigs = 3
SPECIFICATION Spec
INVARIANTS TypeOK TallyIsExact CommitVerifies CommitsNeedQuorum NoVoteLost ConflictsAreReported CommittedOnce
PROPERTIES ProtectedVotesStay
