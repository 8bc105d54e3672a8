CONSTANTS
  MaxTotalVotingPower = 8
  AllNames = {1, 2, 3}
  Powers = {0, 1, 2, 3, 5}
  MaxUpdates = 2
SPECIFICATION Spec
INVARIANTS TypeOK PrioritiesBounded EveryoneProposes EveryoneGetsARound
