\* Four keys, two values, from two bins to eight.
SPECIFICATION Spec
CONSTANTS
  Keys <- MCKeys
  Hash <- MCHash
  Values = {v1, v2}
  UNDEFINED = UNDEFINED
  NULL = NULL
  InitialBins = 2
  MaximumBins = 8
INVARIANTS TypeOK Placed SizeExact Listed EachVisitedOnce
PROPERTIES LoopFinishes ImplementsDictionary
