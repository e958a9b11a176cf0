\* try { return g() } except e { ... }, compiled with the optimizer.
SPECIFICATION Spec
CONSTANTS
  Programs <- MCTailInTry
  Heights <- MCHeights
  Scripts = {"main", "mod", "lib"}
  Main = "main"
  FramesMax = 5
  MaxRuns = 1
  NameReads = {TRUE}
INVARIANT CaughtByInnermost
CHECK_DEADLOCK FALSE
