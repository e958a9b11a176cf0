\* Scripts, compiled, run, optimized and run again.
SPECIFICATION Spec
CONSTANTS
  Sources <- MCSources
  Meanings <- MCMeanings
  FramesMax = 4
  Asserts = TRUE
  BinOrder <- Keys3
  Alphabet <- Keys3
INVARIANTS TypeOK JumpsLand ImportantExact HeightsAgree ExceptNested OptimizedAgrees NeverFaults Undisturbed
PROPERTIES CompiledMeaning Optimizing JumpsFound
