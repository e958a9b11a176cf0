\* The assertion of hymn_delete, after scripts that forget a string's reference.
SPECIFICATION Spec
CONSTANTS
  Objects = {k, o1, o2}
  Literals = {k}
  Slots = {s1, s2, s3, s4}
  MaxDrift = 1
  NULL = NULL
SYMMETRY Symmetry
INVARIANT StringsReleased
CHECK_DEADLOCK FALSE
