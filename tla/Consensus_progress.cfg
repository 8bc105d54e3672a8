CONSTANTS
  Power <- Power11
  MaxPower = 8
  Validators <- MCValidators
  Faulty = {}
  VotingPower <- Power11
  Proposer <- MCProposer
  CreateFails = {}
  MaxHeight = 1
  MaxRound = 2
  MaxCrashes = 0
  Nil = Nil
SPECIFICATION FairSpec
PROPERTIES RoundsAdvance
CHECK_DEADLOCK FALSE
