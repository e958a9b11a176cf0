\* Nested tries, recursion to the last frame, wrong calls, tail calls and
\* modules that import each other; a freed function keeps its NULL name.
SPECIFICATION Spec
CONSTANTS
  Programs <- MCPrograms
  Heights <- MCHeights
  Scripts = {"main", "mod", "lib"}
  Main = "main"
  FramesMax = 5
  MaxRuns = 2
  NameReads = {TRUE}
INVARIANTS TypeOK FramesOwnStack RunsMatchScripts IdleClean CaughtByInnermost ModuleRunsOnce NeverFaults
PROPERTY Finishes
CHECK_DEADLOCK FALSE
