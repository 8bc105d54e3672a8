CONSTANTS
  v1 = v1
  v2 = v2
  v3 = v3
  b1 = b1
  b2 = b2
  Validators = {v1, v2, v3}
  Faulty = {v3}
  Quorums <- MCQuorums
  Heights = {1}
  Rounds = {0, 1, 2}
  Blocks = {b1, b2}
  Nil = Nil
SPECIFICATION Spec
INVARIANTS IInv ConflictNeedsNilPolka
SYMMETRY Symmetry
CHECK_DEADLOCK FALSE
