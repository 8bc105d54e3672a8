CONSTANTS
  Power <- Power211
  MaxPower = 8
  Validators <- MCValidators
  Faulty = {}
  VotingPower <- Power211
  Proposer <- MCProposer
  CreateFails = {}
  MaxHeight = 1
  MaxRound = 2
  MaxCrashes = 0
  Nil = Nil
SPECIFICATION CutSpec
INVARIANTS Agreement
CHECK_DEADLOCK FALSE
