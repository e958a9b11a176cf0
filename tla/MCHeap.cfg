\* One literal, two objects and five references at a time.
SPECIFICATION Spec
CONSTANTS
  Objects = {k, o1, o2}
  Literals = {k}
  Slots = {s1, s2, s3, s4, s5}
  MaxDrift = 1
  NULL = NULL
SYMMETRY Symmetry
INVARIANTS TypeOK CountExact OnlyDebtsDangle ItemsPlaced ReleasedAtOnce StringsReleasedBalanced
CHECK_DEADLOCK FALSE
