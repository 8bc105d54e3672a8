CONSTANTS
  Power <- Power211
  MaxPower = 8
  Validators <- MCValidators
  Faulty = {3}
  VotingPower <- Power211
  Proposer <- MCProposer
  CreateFails = {}
  MaxHeight = 1
  MaxRound = 1
  MaxCrashes = 0
  Nil = Nil
SPECIFICATION Spec
INVARIANTS TypeOK ConflictNeedsNilPolka
PROPERTIES ImplementsVoting
CHECK_DEADLOCK FALSE
