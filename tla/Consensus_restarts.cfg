CONSTANTS
  Power <- Power11
  MaxPower = 8
  Validators <- MCValidators
  Faulty = {}
  VotingPower <- Power11
  Proposer <- MCProposer
  CreateFails = {}
  MaxHeight = 2
  MaxRound = 1
  MaxCrashes = 1
  Nil = Nil
SPECIFICATION Spec
INVARIANTS OneVoteEach NoImpossiblePanic
CHECK_DEADLOCK FALSE
