\* Three references at a time; without symmetry, which liveness does not allow.
SPECIFICATION Spec
CONSTANTS
  Objects = {k, o1, o2}
  Literals = {k}
  Slots = {s1, s2, s3}
  MaxDrift = 1
  NULL = NULL
PROPERTY CascadeEnds
CHECK_DEADLOCK FALSE
