CONSTANTS
  Power <- Power11
  MaxPower = 8
  Validators <- MCValidators
  Faulty = {}
  VotingPower <- Power11
  Proposer <- MCProposer
  CreateFails = {}
  MaxHeight = 2
  MaxRound = 1
  MaxCrashes = 0
  Nil = Nil
SPECIFICATION FairSpec
PROPERTIES RoundsAdvance
CHECK_DEADLOCK FALSE
