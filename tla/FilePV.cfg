\* Two processes and five ways of use, chosen at the start.
CONSTANTS
  Procs = {p1, p2}
  Keys = {k1, k2}
  Heights = {1}
  Rounds = {0}
  Contents = {x, y}
  Uses <- MCUses
  NoKey = NoKey
  NoProc = NoProc
  NoContent = NoContent
  NoFile = NoFile
SYMMETRY Symmetry
SPECIFICATION Spec
INVARIANTS NoDoubleSign ReleasedAreCovered MemoryMatchesFile
PROPERTIES ReleasedInOrder FileRegressesOnlyByReset
