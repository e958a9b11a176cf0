\* Three texts at three addresses, three owning places and two literals.
SPECIFICATION Spec
CONSTANTS
  Texts = {c1, c2, c3}
  Objects = {o1, o2, o3}
  Slots = {s1, s2, s3}
  Literals = {k1, k2}
  NULL = NULL
SYMMETRY Symmetry
INVARIANTS TypeOK Canonical SlotsAlive CountExact DeletedEmpty LiteralsAliveOnce
CHECK_DEADLOCK FALSE
