CONSTANTS
  Power <- Power211
  MaxPower = 8
  Validators <- MCValidators
  Faulty = {2}
  VotingPower <- Power211
  Proposer <- MCProposer
  CreateFails <- FirstFails
  MaxHeight = 1
  MaxRound = 1
  MaxCrashes = 0
  Nil = Nil
SPECIFICATION Spec
INVARIANTS LockHasPolka DecidedIsCertified
CHECK_DEADLOCK FALSE
