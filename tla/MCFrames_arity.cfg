\* return g(), where g takes an argument, in a function of a module.
SPECIFICATION Spec
CONSTANTS
  Programs <- MCTailTooFew
  Heights <- MCHeights
  Scripts = {"main", "mod", "lib"}
  Main = "main"
  FramesMax = 5
  MaxRuns = 1
  NameReads = {TRUE}
INVARIANT NeverFaults
CHECK_DEADLOCK FALSE
