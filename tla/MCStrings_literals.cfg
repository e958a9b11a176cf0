\* A literal compiled while a running script holds its text.
SPECIFICATION Spec
CONSTANTS
  Texts = {c1, c2}
  Objects = {o1, o2}
  Slots = {s1, s2}
  Literals = {k1}
  NULL = NULL
PROPERTY LiteralsStable
CHECK_DEADLOCK FALSE
