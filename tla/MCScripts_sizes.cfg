\* print() takes one byte, and next() says two.
SPECIFICATION Spec
CONSTANTS
  Sources <- SizedSources
  Meanings <- SizedMeanings
  FramesMax = 4
  Asserts = FALSE
  BinOrder <- Keys3
  Alphabet <- Keys3
INVARIANT NeverFaults
